---------------------------- MODULE Spec2Model ----------------------------
(***************************************************************************)
(* Session/handover coordination engine of the WhatsApp gateway            *)
(* (package chatbot: Handler, ChatHub, reply bridge, auto-responder).      *)
(*                                                                         *)
(* Strings are sequences of one-character strings, so that the string      *)
(* functions of the handlers (strings.Split, TrimSpace, TrimRight,         *)
(* ToLower) are computed character by character as the Go code does.       *)
(*                                                                         *)
(* The module holds several specifications over one set of variables:      *)
(*   SpecExtract  extractSessionID applied to bounded quoted bodies        *)
(*   SpecAuto     HandleBotAutoResponder, one goroutine per inbound event  *)
(*   Spec         one chat session from its start to its end: the HTTP     *)
(*                handlers, the reply bridge and the cleanup job, each     *)
(*                request a goroutine that interleaves with the others at  *)
(*                every access of the session store                        *)
(*   SpecStart    starting, queueing and ending several sessions           *)
(*   SpecStamp    the timestamps of stored messages: time.Now() of the     *)
(*                HTTP handlers against the WhatsApp timestamp the reply   *)
(*                bridge stores                                            *)
(*   SpecHub      ChatHub: registration, the bounded send queues, the      *)
(*                read and write pumps of the WebSocket connections        *)
(*   SpecOrder    persisting and broadcasting of the messages of one       *)
(*                session by concurrent handlers                           *)
(*   SpecFwd      forwardEvents: one inbound event handed to the reply     *)
(*                bridge and to the auto-responder                         *)
(*   SpecLid      SyncContactsStream and LIDCache: cache pass, network     *)
(*                lookups with the circuit breaker, the file writer        *)
(*   SpecIdle     the cleanup job against sessions that go idle            *)
(*   SpecSide     StartChat of one visitor called concurrently             *)
(*   SpecAdmin    isAuthorizedAdmin over senders, LID resolution and the   *)
(*                outcomes of the settings fetch                           *)
(*   SpecRound    the forward and handover templates rendered and read     *)
(*                back by extractSessionID                                 *)
(*   SpecReg      ChatHub.Run: register, unregister and broadcast against  *)
(*                connections that replace each other                      *)
(*   SpecMon      MonitorService: the health checks of the cron job        *)
(*                                                                         *)
(* The session store (SessionManager) is not part of the sources at hand;  *)
(* its operations follow section 4.2 of the specification.                 *)
(***************************************************************************)
EXTENDS Naturals, Sequences, FiniteSets

VARIABLES
    quotedBody,      \* extractSessionID: its argument
    extracted,       \* extractSessionID: its result
    exPc,            \* "start" before the call, "done" after it, "off" in the other specifications
    autoReplyCache,  \* sync.Map autoReplyCache: sender -> time of the last Store
    now,             \* wall clock, in minutes
    autoProc,        \* the goroutines running HandleBotAutoResponder
    acks,            \* the acknowledgments dispatched: sender -> the times of dispatch
    sessions,        \* the session store: session id -> Session
    messages,        \* the message log, in the order the messages were persisted
    proc,            \* the goroutines serving HTTP requests and bridge events
    out,             \* what the last step sent: hub broadcasts, WhatsApp sends, HTTP responses, AI calls
    clock,           \* wall clock of the message timestamps, in ticks
    wire,            \* WhatsApp messages of the agent on their way to the gateway
    stored,          \* timestamped messages of one session, in the order they were persisted
    hubVisitors,     \* ChatHub.visitors: session id -> connection
    hubAdmins,       \* ChatHub.admins: the admin connections
    send,            \* ChatClient.send of every connection: the events waiting for its writePump
    connState,       \* every connection: "new" before the upgrade, "open" once registered, "gone" after unregister
    plog,            \* contents of the chat messages of one session, in the order they were persisted
    pub,             \* the handlers publishing a chat message: handler -> how far it has got
    fwdEvt,          \* forwardEvents: the inbound event handed to both handlers
    fwdPc,           \* the two goroutines forwardEvents started for the event
    reactions,       \* what the handlers did with the event: "bridge", "ack"
    lidMapping,      \* LIDCache.Mapping, in memory: LID -> phone
    lidFile,         \* the cache file lid_mapping.json: LID -> phone
    savers,          \* goroutines started by LIDCache.Set that have not yet written the file
    pass,            \* the resolution pass of SyncContactsStream under way
    lookups,         \* network lookups (GetUserInfo) issued so far, per LID
    report,          \* the resolved ids the last finished pass reported, per LID
    adminIn,         \* isAuthorizedAdmin: its argument and what it finds around it
    adminOut,        \* isAuthorizedAdmin: its result, "none" before the call
    tmpl,            \* the session and the texts a message to the agent is made of
    run,             \* ChatHub.Run: the case it has received and not yet carried out
    closed,          \* how often close(client.send) was called, per connection
    panics,          \* the run-time panics of the hub: "send on closed channel", "close of closed channel"
    mon,             \* MonitorService: lastStatus, downSince, alertSent, slowCount
    monNow,          \* time.Now() of the health monitor, in half minutes
    checks,          \* the statuses the health checks have observed, oldest first
    alerts           \* the alerts sendAlert was called for, oldest first

exVars == <<quotedBody, extracted, exPc>>

autoVars == <<autoReplyCache, now, autoProc, acks>>

chatVars == <<sessions, messages, proc, out>>

stampVars == <<clock, wire, stored>>

hubVars == <<hubVisitors, hubAdmins, send, connState>>

orderVars == <<plog, pub>>

fwdVars == <<fwdEvt, fwdPc, reactions>>

lidVars == <<lidMapping, lidFile, savers, pass, lookups, report>>

admVars == <<adminIn, adminOut>>

tplVars == <<tmpl>>

regVars == <<run, closed, panics>>

monVars == <<mon, monNow, checks, alerts>>

moreVars == <<admVars, tplVars, regVars, monVars>>

baseVars == <<exVars, autoVars, chatVars, stampVars, hubVars, orderVars, fwdVars, lidVars>>

restVars == <<stampVars, hubVars, orderVars, fwdVars, lidVars, moreVars>>

nonExVars == <<autoVars, chatVars, restVars>>
nonAutoVars == <<exVars, chatVars, restVars>>
nonChatVars == <<exVars, autoVars, restVars>>
nonStampVars == <<exVars, autoVars, chatVars, hubVars, orderVars, fwdVars, lidVars, moreVars>>
nonHubVars == <<exVars, autoVars, chatVars, stampVars, orderVars, fwdVars, lidVars, moreVars>>
nonOrderVars == <<exVars, autoVars, chatVars, stampVars, fwdVars, lidVars, moreVars>>
nonFwdVars == <<exVars, autoVars, chatVars, stampVars, hubVars, orderVars, lidVars, moreVars>>
nonLidVars == <<exVars, autoVars, chatVars, stampVars, hubVars, orderVars, fwdVars, moreVars>>

vars == <<quotedBody, extracted, exPc, autoReplyCache, now, autoProc, acks,
          sessions, messages, proc, out, clock, wire, stored,
          hubVisitors, hubAdmins, send, connState, plog, pub,
          fwdEvt, fwdPc, reactions,
          lidMapping, lidFile, savers, pass, lookups, report,
          adminIn, adminOut, tmpl, run, closed, panics,
          mon, monNow, checks, alerts>>

\* the parts of the state a specification does not use stay as they are here
IdleStamp ==
    /\ clock = 0
    /\ wire = {}
    /\ stored = <<>>

IdleHub ==
    /\ hubVisitors = <<>>
    /\ hubAdmins = {}
    /\ send = <<>>
    /\ connState = <<>>

IdleOrder ==
    /\ plog = <<>>
    /\ pub = <<>>

IdleFwd ==
    /\ fwdEvt = <<>>
    /\ fwdPc = <<>>
    /\ reactions = {}

IdleLid ==
    /\ lidMapping = <<>>
    /\ lidFile = <<>>
    /\ savers = <<>>
    /\ pass = <<>>
    /\ lookups = <<>>
    /\ report = <<>>

IdleAdm ==
    /\ adminIn = <<>>
    /\ adminOut = "none"

IdleTpl == tmpl = <<>>

IdleReg ==
    /\ run = <<>>
    /\ closed = <<>>
    /\ panics = {}

IdleMon ==
    /\ mon = <<>>
    /\ monNow = 0
    /\ checks = <<>>
    /\ alerts = <<>>

IdleMore == IdleAdm /\ IdleTpl /\ IdleReg /\ IdleMon

IdleRest == IdleStamp /\ IdleHub /\ IdleOrder /\ IdleFwd /\ IdleLid /\ IdleMore

-----------------------------------------------------------------------------
(* Go string helpers (package strings), on sequences of characters.        *)

LF == "\n"

\* unicode.IsSpace restricted to the characters the model uses
WhiteSpace == {" ", "\t", LF, "\r"}

\* s[from..] (Go slice s[from-1:])
Drop(s, n) == SubSeq(s, n + 1, Len(s))

\* s[..n] (Go slice s[:n])
Take(s, n) == SubSeq(s, 1, n)

RECURSIVE TrimLeftSet(_, _)
TrimLeftSet(s, cut) ==
    IF s # <<>> /\ Head(s) \in cut THEN TrimLeftSet(Tail(s), cut) ELSE s

RECURSIVE TrimRightSet(_, _)
\* strings.TrimRight(s, cutset)
TrimRightSet(s, cut) ==
    IF s # <<>> /\ s[Len(s)] \in cut THEN TrimRightSet(Take(s, Len(s) - 1), cut) ELSE s

\* strings.TrimSpace(s)
TrimSpace(s) == TrimRightSet(TrimLeftSet(s, WhiteSpace), WhiteSpace)

\* strings.Contains(s, c) for a one-character c
ContainsChar(s, c) == \E i \in 1..Len(s) : s[i] = c

\* index of the first c in s, 0 when absent
IndexChar(s, c) ==
    IF ContainsChar(s, c)
    THEN CHOOSE i \in 1..Len(s) : s[i] = c /\ \A j \in 1..(i - 1) : s[j] # c
    ELSE 0

RECURSIVE SplitChar(_, _)
\* strings.Split(s, c) for a one-character separator: always at least one part
SplitChar(s, c) ==
    LET i == IndexChar(s, c)
    IN  IF i = 0 THEN <<s>>
        ELSE <<Take(s, i - 1)>> \o SplitChar(Drop(s, i), c)

-----------------------------------------------------------------------------
(* extractSessionID                                                        *)

\* the cutset of strings.TrimRight(potentialID, ")*_ ")
TrailingCut == {")", "*", "_", " "}

MinIDLen == 15
MaxIDLen == 30

\* the candidate a line yields: the text after the line's last '#', trimmed
PotentialID(line) ==
    LET parts == SplitChar(line, "#")
    IN  TrimRightSet(TrimSpace(parts[Len(parts)]), TrailingCut)

\* the length test: the only validation the function performs
ValidIDLen(id) == Len(id) >= MinIDLen /\ Len(id) <= MaxIDLen

RECURSIVE ScanLines(_, _)
\* the loop "for i := len(lines) - 1; i >= 0; i--"
ScanLines(lines, i) ==
    IF i = 0 THEN <<>>
    ELSE LET line == TrimSpace(lines[i])
         IN  IF ContainsChar(line, "#") /\ ValidIDLen(PotentialID(line))
             THEN PotentialID(line)
             ELSE ScanLines(lines, i - 1)

extractSessionID(body) ==
    LET lines == SplitChar(body, LF)
    IN  ScanLines(lines, Len(lines))

-----------------------------------------------------------------------------
(* Quoted bodies: concatenations of at most MaxPieces pieces.              *)

MaxPieces == 3

Rep(c, n) == [i \in 1..n |-> c]

\* two distinguishable session tokens of 20 characters, and tokens at the
\* borders of the accepted length
TokenA == Rep("a", 10) \o Rep("1", 10)
TokenB == Rep("b", 10) \o Rep("2", 10)

Pieces ==
    { <<"#">>, <<" ">>, <<LF>>, <<")", "*">>, <<"I", "D", ":", " ">>,
      <<"o", "k">>, <<",", " ", "o", "k">>,
      TokenA, TokenB,
      Rep("c", MinIDLen - 1), Rep("c", MinIDLen),
      Rep("d", MaxIDLen), Rep("d", MaxIDLen + 1) }

RECURSIVE Bodies(_)
Bodies(n) ==
    IF n = 0 THEN {<<>>}
    ELSE LET shorter == Bodies(n - 1)
         IN  shorter \cup {b \o p : b \in shorter, p \in Pieces}

IdleExtract ==
    /\ quotedBody = <<>>
    /\ extracted = <<>>
    /\ exPc = "off"

IdleAuto ==
    /\ autoReplyCache = <<>>
    /\ now = 0
    /\ autoProc = <<>>
    /\ acks = <<>>

IdleChat ==
    /\ sessions = <<>>
    /\ messages = <<>>
    /\ proc = <<>>
    /\ out = {}

InitExtract ==
    /\ quotedBody \in Bodies(MaxPieces)
    /\ extracted = <<>>
    /\ exPc = "start"
    /\ IdleAuto
    /\ IdleChat
    /\ IdleRest

Extract ==
    /\ exPc = "start"
    /\ extracted' = extractSessionID(quotedBody)
    /\ exPc' = "done"
    /\ UNCHANGED quotedBody

NextExtract ==
    \/ Extract /\ UNCHANGED nonExVars

SpecExtract == InitExtract /\ [][NextExtract]_vars

-----------------------------------------------------------------------------
(* Properties of extractSessionID (under SpecExtract).                     *)

\* the letters and digits among the characters of the quoted bodies
AlnumChars == {"a", "b", "c", "d", "o", "k", "I", "D", "1", "2"}

RECURSIVE AlnumRun(_)
\* the longest alphanumeric prefix of s
AlnumRun(s) ==
    IF s # <<>> /\ Head(s) \in AlnumChars THEN <<Head(s)>> \o AlnumRun(Tail(s)) ELSE <<>>

\* the positions of the '#' that are directly followed by a token of
\* MinIDLen..MaxIDLen alphanumeric characters
HashTokenAt(body) ==
    {i \in 1..Len(body) : body[i] = "#" /\ ValidIDLen(AlnumRun(Drop(body, i)))}

\* the last such token of the body
LastHashToken(body) ==
    LET i == CHOOSE k \in HashTokenAt(body) : \A j \in HashTokenAt(body) : j <= k
    IN  AlnumRun(Drop(body, i))

\* C7: every non-empty result of extractSessionID is a token of 15 to 30
\* alphanumeric characters that directly follows a '#' of the quoted text.
C7_ResultIsHashToken ==
    (exPc = "done" /\ extracted # <<>>) =>
        \E i \in HashTokenAt(quotedBody) : extracted = AlnumRun(Drop(quotedBody, i))

\* C8: a body that holds '#' followed by a token of 15-30 alphanumeric
\* characters yields exactly the last such token, and a body without '#'
\* yields the empty string.
C8_LastTokenWins ==
    exPc = "done" =>
        /\ HashTokenAt(quotedBody) # {} => extracted = LastHashToken(quotedBody)
        /\ ~ContainsChar(quotedBody, "#") => extracted = <<>>

-----------------------------------------------------------------------------
(* HandleBotAutoResponder: forwardEvents starts one goroutine per inbound  *)
(* event.  A goroutine blocks in isAuthorizedAdmin (network), then Loads   *)
(* the sender's cooldown entry, and in a later step Stores the new entry   *)
(* and dispatches the acknowledgment.                                      *)

MaxAutoProcs == 2
MaxTime == 40          \* the clock stops here
TickMinutes == 10      \* the clock advances in steps of this many minutes

CooldownMinutes == 30  \* time.Since(lastReplyTime) < 30*time.Minute

AutoProcs == 1..MaxAutoProcs

Senders == {"clientA", "clientB"}

\* the quoted texts of inbound events: none, one without token, a bridge quote
AutoQuotes == {<<>>, <<"o", "k">>, <<"I", "D", ":", " ", "#">> \o TokenA}

\* NewMessageEvent, with the outcome of isAuthorizedAdmin(evt.From) as an input
AutoEvents ==
    [From : Senders, FromMe : BOOLEAN, authorized : BOOLEAN, QuotedMsgBody : AutoQuotes]

\* a goroutine with no event in hand
NoEvent == [From |-> "", FromMe |-> FALSE, authorized |-> FALSE, QuotedMsgBody |-> <<>>]

AutoIdle == [pc |-> "idle", From |-> "", evt |-> NoEvent]

InitAuto ==
    /\ autoReplyCache = <<>>
    /\ now = 0
    /\ autoProc = [p \in AutoProcs |-> AutoIdle]
    /\ acks = [s \in Senders |-> <<>>]
    /\ IdleExtract
    /\ IdleChat
    /\ IdleRest

AutoFiltered_QuoteNotRead(evt) ==
    \/ evt.FromMe
    \/ evt.authorized

\* steps 1-3 of the handler: the event is none of the auto-responder's
AutoFiltered(evt) ==
    \/ evt.FromMe
    \/ evt.authorized
    \/ (evt.QuotedMsgBody # <<>> /\ extractSessionID(evt.QuotedMsgBody) # <<>>)

\* step 4: autoReplyCache.Load(evt.From) and the cooldown test
CooldownActive(from) ==
    /\ from \in DOMAIN autoReplyCache
    /\ now - autoReplyCache[from] < CooldownMinutes

\* the event is ignored by steps 1-3
AutoIgnore(p, evt) ==
    /\ autoProc[p].pc = "idle"
    /\ AutoFiltered(evt)
    /\ UNCHANGED autoVars

\* the cooldown is active: "Skipping auto-reply"
AutoSkip(p, evt) ==
    /\ autoProc[p].pc = "idle"
    /\ ~AutoFiltered(evt)
    /\ CooldownActive(evt.From)
    /\ UNCHANGED autoVars

\* the Load found no entry, or an expired one
AutoLoad(p, evt) ==
    /\ autoProc[p].pc = "idle"
    /\ ~AutoFiltered(evt)
    /\ ~CooldownActive(evt.From)
    /\ autoProc' = [autoProc EXCEPT ![p] =
                        [pc |-> "store", From |-> evt.From, evt |-> evt]]
    /\ UNCHANGED <<autoReplyCache, now, acks>>

\* the sync.Map after Store(from, t)
CacheStore(cache, from, t) ==
    [s \in DOMAIN cache \cup {from} |-> IF s = from THEN t ELSE cache[s]]

\* autoReplyCache.Store(evt.From, time.Now()), then the send through the
\* client that received the event, when waManager.GetClient finds it ready
AutoStoreSend(p, clientReady) ==
    /\ autoProc[p].pc = "store"
    /\ autoReplyCache' = CacheStore(autoReplyCache, autoProc[p].From, now)
    /\ acks' = IF clientReady
               THEN [acks EXCEPT ![autoProc[p].From] = Append(@, now)]
               ELSE acks
    /\ autoProc' = [autoProc EXCEPT ![p] = AutoIdle]
    /\ UNCHANGED now

Tick ==
    /\ now + TickMinutes <= MaxTime
    /\ now' = now + TickMinutes
    /\ UNCHANGED <<autoReplyCache, autoProc, acks>>

NextAuto ==
    \/ (\E p \in AutoProcs, evt \in AutoEvents : AutoIgnore(p, evt)) /\ UNCHANGED nonAutoVars
    \/ (\E p \in AutoProcs, evt \in AutoEvents : AutoSkip(p, evt)) /\ UNCHANGED nonAutoVars
    \/ (\E p \in AutoProcs, evt \in AutoEvents : AutoLoad(p, evt)) /\ UNCHANGED nonAutoVars
    \/ (\E p \in AutoProcs, ready \in BOOLEAN : AutoStoreSend(p, ready)) /\ UNCHANGED nonAutoVars
    \/ Tick /\ UNCHANGED nonAutoVars

SpecAuto == InitAuto /\ [][NextAuto]_vars

\* C1: for any sender, at most one acknowledgment is sent within any
\* rolling window of 30 minutes, even when duplicate inbound events of the
\* sender are handled concurrently.
C1_OneAckPerWindow ==
    \A s \in Senders : \A i, j \in 1..Len(acks[s]) :
        i < j => acks[s][j] - acks[s][i] >= CooldownMinutes

C29_CooldownOnlyWithAck ==
    [][\A s \in Senders :
        (/\ s \in DOMAIN autoReplyCache'
         /\ s \in DOMAIN autoReplyCache => autoReplyCache'[s] # autoReplyCache[s]) =>
            Len(acks'[s]) = Len(acks[s]) + 1
      ]_vars

-----------------------------------------------------------------------------
(* The session store (SessionManager).  Session:                           *)
(*   {id, visitorId, status in {bot,queued,live,closed}, claimedBy,        *)
(*    lastActivityAt}                                                      *)
(* A session is created with status bot and is never deleted.              *)
(* lastActivityAt is kept as idle = now - lastActivityAt, in minutes, and  *)
(* is not counted beyond the first tick past the cleanup threshold.        *)

MaxSessions == 2       \* sessions the store can hold
LifeSessions == 1      \* sessions started where one session is followed to its end
MaxHttp == 1           \* HTTP requests in flight
MaxBridge == 1         \* bridge events in flight
MaxMsgs == 1           \* messages the log can hold: a SaveMessage beyond it fails

CleanupMinutes == 6    \* CleanupSessions(ctx, 6*time.Minute)

SessionIds == 1..MaxSessions
HttpProcs == 1..MaxHttp
BridgeProcs == (MaxHttp + 1)..(MaxHttp + MaxBridge)
Procs == HttpProcs \cup BridgeProcs
Visitors == {"v1", "v2"}

StatusBot == "bot"
StatusQueued == "queued"
StatusLive == "live"
StatusClosed == "closed"

Exists(sid) == sid \in DOMAIN sessions

\* GetSessionByVisitorID: the visitor's open session, 0 when there is none
GetSessionByVisitorID(v) ==
    LET open == {k \in DOMAIN sessions :
                    sessions[k].visitorId = v /\ sessions[k].status # StatusClosed}
    IN  IF open = {} THEN 0 ELSE CHOOSE k \in open : \A j \in open : k <= j

\* CreateSession: a new session, status bot, unclaimed
CreateSession(v) ==
    LET id == Cardinality(DOMAIN sessions) + 1
    IN  [k \in DOMAIN sessions \cup {id} |->
            IF k = id
            THEN [visitorId |-> v, status |-> StatusBot, claimedBy |-> "", idle |-> 0]
            ELSE sessions[k]]

\* RequestHandover: bot -> queued, an error otherwise
CanRequestHandover(sid) == Exists(sid) /\ sessions[sid].status = StatusBot

DoRequestHandover(sid) == [sessions EXCEPT ![sid].status = StatusQueued]

\* ClaimSession reads the session and refuses one that is not queued ...
CanClaimSession(sid) == Exists(sid) /\ sessions[sid].status = StatusQueued

\* ... and then writes status and owner, with no compare-and-swap
DoClaimSession(sid, adminID) ==
    [sessions EXCEPT ![sid].status = StatusLive, ![sid].claimedBy = adminID]

\* ReturnToBot: any non-closed state -> bot, the owner cleared
CanReturnToBot(sid) == Exists(sid) /\ sessions[sid].status # StatusClosed

DoReturnToBot(sid) ==
    [sessions EXCEPT ![sid].status = StatusBot, ![sid].claimedBy = ""]

\* CloseSession: any state -> closed, the owner cleared
CanCloseSession(sid) == Exists(sid)

CloseIn(ss, sid) ==
    [ss EXCEPT ![sid].status = StatusClosed, ![sid].claimedBy = "", ![sid].idle = 0]

DoCloseSession(sid) == CloseIn(sessions, sid)

\* SaveMessage appends to the log of a session that is not closed; the
\* write can fail (Persistence)
SaveOutcomes == IF Len(messages) < MaxMsgs THEN BOOLEAN ELSE {FALSE}

CanSaveMessage(sid) == Exists(sid) /\ sessions[sid].status # StatusClosed

ChatMessage(sid, sender, content) ==
    [SessionID |-> sid, Sender |-> sender, Content |-> content]

\* a saved message is activity of its session
Touch(ss, sid) ==
    IF sid \in DOMAIN ss /\ ss[sid].status # StatusClosed
    THEN [ss EXCEPT ![sid].idle = 0]
    ELSE ss

SaveMessage(msg, ok) ==
    IF ok /\ CanSaveMessage(msg.SessionID)
    THEN /\ messages' = Append(messages, msg)
         /\ sessions' = Touch(sessions, msg.SessionID)
    ELSE UNCHANGED <<sessions, messages>>

\* the first idle time past the threshold that the clock can show
IdleCap == ((CleanupMinutes \div TickMinutes) + 1) * TickMinutes

Inactive_NotLive(sid) ==
    sessions[sid].status \notin {StatusClosed, StatusLive} /\ sessions[sid].idle > CleanupMinutes

\* CleanupInactiveSessions(maxIdle): closes the sessions idle for longer
Inactive(sid) == sessions[sid].status # StatusClosed /\ sessions[sid].idle > CleanupMinutes

AfterCleanup ==
    [k \in DOMAIN sessions |-> IF Inactive(k) THEN CloseIn(sessions, k)[k] ELSE sessions[k]]

-----------------------------------------------------------------------------
(* What a step sends.                                                      *)

\* ChatHub.BroadcastToAdmins(event, data)
ToAdmins(event, sid, x) == [k |-> "toAdmins", ev |-> event, sid |-> sid, x |-> x]
\* ChatHub.BroadcastToSession(sessionID, event, data)
ToSession(event, sid, x) == [k |-> "toSession", ev |-> event, sid |-> sid, x |-> x]
\* botClient.SendTextMessage to the agent
ToAgent(what, sid) == [k |-> "toAgent", ev |-> what, sid |-> sid, x |-> ""]
\* c.JSON(code, ...): only StartChat answers with a session id
Http(code, sid) == [k |-> "http", ev |-> "", sid |-> sid, x |-> code]
\* sessionManager.ProcessMessage
AICall(sid) == [k |-> "ai", ev |-> "ProcessMessage", sid |-> sid, x |-> ""]

-----------------------------------------------------------------------------
(* Bridge events: quoted texts and bodies of the agent's WhatsApp replies. *)

Digits == <<"1", "2", "3", "4", "5", "6", "7", "8", "9">>

\* the id of session k as the 20-character token the store assigns
Token(k) == Rep("s", 19) \o <<Digits[k]>>

\* the forward template of SendMessage: "...\n\nID: #<session_id>"
QuoteOf(k) == <<"o", "k", LF, LF, "I", "D", ":", " ", "#">> \o Token(k)

BridgeQuotes == {<<>>, <<"o", "k">>} \cup {QuoteOf(k) : k \in SessionIds}

\* extractSessionID(evt.QuotedMsgBody), and the session the result names
SessionOfQuote ==
    [q \in BridgeQuotes |->
        LET id == extractSessionID(q)
        IN  IF \E k \in SessionIds : Token(k) = id
            THEN CHOOSE k \in SessionIds : Token(k) = id
            ELSE 0]

UpperCase == <<"A", "B", "C", "D", "E", "F", "G", "H", "I", "J", "K", "L", "M",
               "N", "O", "P", "Q", "R", "S", "T", "U", "V", "W", "X", "Y", "Z">>
LowerCase == <<"a", "b", "c", "d", "e", "f", "g", "h", "i", "j", "k", "l", "m",
               "n", "o", "p", "q", "r", "s", "t", "u", "v", "w", "x", "y", "z">>

\* strings.ToLower
ToLower(s) ==
    [i \in 1..Len(s) |->
        IF \E j \in 1..26 : UpperCase[j] = s[i]
        THEN LowerCase[CHOOSE j \in 1..26 : UpperCase[j] = s[i]]
        ELSE s[i]]

GreetCmds == {<<"/", "h", "i">>, <<"/", "h", "a", "l", "o">>,
              <<"/", "s", "a", "m", "b", "u", "t", "a", "n">>}
ThanksCmds == {<<"/", "t", "h", "a", "n", "k", "s">>, <<"/", "t", "r", "i", "m", "s">>,
               <<"/", "t", "q">>}
EndCmds == {<<"/", "e", "n", "d">>, <<"/", "c", "l", "o", "s", "e">>,
            <<"/", "s", "e", "l", "e", "s", "a", "i">>}
BotCmds == {<<"/", "a", "i">>, <<"/", "b", "o", "t">>,
            <<"/", "k", "e", "m", "b", "a", "l", "i">>}

BridgeBodies ==
    GreetCmds \cup ThanksCmds \cup EndCmds \cup BotCmds \cup
    { <<" ", "/", "E", "N", "D", " ">>, <<"/", "A", "i", LF>>, <<"\t", "/", "H", "i">>,
      <<"/", "T", "Q", " ">>,
      <<"o", "k">>, <<"/", "e", "n", "d", "x">> }

\* cmd := strings.ToLower(strings.TrimSpace(evt.Body))
CmdOf == [b \in BridgeBodies |-> ToLower(TrimSpace(b))]

CannedGreeting == <<"H", "a", "l", "o", "!">>
CannedThanks == <<"T", "e", "r", "i", "m", "a">>

\* every body as a reply to the first session's message; a plain reply and
\* a message of the bot itself with every quote
BridgeEvents ==
    [FromMe : {FALSE}, QuotedMsgBody : {QuoteOf(1)}, Body : BridgeBodies] \cup
    [FromMe : BOOLEAN, QuotedMsgBody : BridgeQuotes, Body : {<<"o", "k">>}]

-----------------------------------------------------------------------------
(* The goroutines.  An HTTP request runs in a goroutine of the web server, *)
(* a bridge event in a goroutine started by forwardEvents.  pc is the next *)
(* store access of a handler that makes more than one; a handler that      *)
(* makes one is a single step.                                             *)

ProcIdle == [pc |-> "idle", sid |-> 0, who |-> "", snap |-> "", body |-> <<>>]

Goto(p, pc, sid, who, snap, body) ==
    proc' = [proc EXCEPT ![p] =
                [pc |-> pc, sid |-> sid, who |-> who, snap |-> snap, body |-> body]]

Done(p) == proc' = [proc EXCEPT ![p] = ProcIdle]

InitChat ==
    /\ sessions = <<>>
    /\ messages = <<>>
    /\ proc = [p \in Procs |-> ProcIdle]
    /\ out = {}
    /\ IdleExtract
    /\ IdleAuto
    /\ IdleRest

\* sessions a StartChat in flight is about to create
Creating == Cardinality({p \in Procs : proc[p].pc = "start_create"})

\* StartChat: an open session of the visitor exists and is resumed
StartChatResume(v) ==
    /\ GetSessionByVisitorID(v) # 0
    /\ out' = {Http(200, GetSessionByVisitorID(v))}
    /\ UNCHANGED <<sessions, messages, proc>>

StartChatLookup_Always(p, v, room) ==
    /\ proc[p].pc = "idle"
    /\ Cardinality(DOMAIN sessions) + Creating < room
    /\ Goto(p, "start_create", 0, v, "", <<>>)
    /\ out' = {}
    /\ UNCHANGED <<sessions, messages>>

\* StartChat: no open session found, the handler goes on to create one
StartChatLookup(p, v, room) ==
    /\ proc[p].pc = "idle"
    /\ GetSessionByVisitorID(v) = 0
    /\ Cardinality(DOMAIN sessions) + Creating < room
    /\ Goto(p, "start_create", 0, v, "", <<>>)
    /\ out' = {}
    /\ UNCHANGED <<sessions, messages>>

WelcomeText == <<"H", "a", "l", "o">>

\* StartChat: CreateSession, then the welcome message is saved
StartChatCreate(p, ok, saved) ==
    /\ proc[p].pc = "start_create"
    /\ IF ok
       THEN LET id == Cardinality(DOMAIN sessions) + 1
            IN  /\ sessions' = CreateSession(proc[p].who)
                /\ messages' = IF saved
                               THEN Append(messages, ChatMessage(id, "bot", WelcomeText))
                               ELSE messages
                /\ out' = {Http(200, id)}
       ELSE /\ out' = {Http(500, 0)}
            /\ UNCHANGED <<sessions, messages>>
    /\ Done(p)

\* RequestHandover: the transition, the queue update, the agent notification
RequestHandover(sid, agentReady) ==
    /\ IF CanRequestHandover(sid)
       THEN /\ sessions' = DoRequestHandover(sid)
            /\ out' = {ToAdmins("queue-update", sid, "new"), Http(200, 0)}
                      \cup (IF agentReady THEN {ToAgent("handover", sid)} ELSE {})
       ELSE /\ out' = {Http(500, 0)}
            /\ UNCHANGED sessions
    /\ UNCHANGED <<messages, proc>>

ClaimAdminID_AsGiven(adminId) == adminId

\* ClaimChat: "if adminID == "" { adminID = "admin_default" }"
ClaimAdminID(adminId) == IF adminId = "" THEN "admin_default" ELSE adminId

AdminIds == {"", "admin1"}

ClaimChatRead_Unchecked(p, sid, adminId) ==
    /\ proc[p].pc = "idle"
    /\ Goto(p, "claim_write", sid, ClaimAdminID(adminId), "", <<>>)
    /\ out' = {}
    /\ UNCHANGED <<sessions, messages>>

\* ClaimChat, first half of ClaimSession: the session is read
ClaimChatRead(p, sid, adminId) ==
    /\ proc[p].pc = "idle"
    /\ IF CanClaimSession(sid)
       THEN /\ Goto(p, "claim_write", sid, ClaimAdminID(adminId), "", <<>>)
            /\ out' = {}
       ELSE /\ out' = {Http(500, 0)}
            /\ UNCHANGED proc
    /\ UNCHANGED <<sessions, messages>>

\* ClaimChat, second half of ClaimSession: the write, then the broadcasts
ClaimChatWrite(p) ==
    /\ proc[p].pc = "claim_write"
    /\ sessions' = DoClaimSession(proc[p].sid, proc[p].who)
    /\ out' = {ToSession("admin-joined", proc[p].sid, proc[p].who),
               ToAdmins("queue-update", proc[p].sid, "claimed"),
               Http(200, 0)}
    /\ Done(p)
    /\ UNCHANGED messages

\* ReturnToBot (dashboard)
ReturnToBot(sid) ==
    /\ IF CanReturnToBot(sid)
       THEN /\ sessions' = DoReturnToBot(sid)
            /\ out' = {ToSession("status-change", sid, "bot"), Http(200, 0)}
       ELSE /\ out' = {Http(500, 0)}
            /\ UNCHANGED sessions
    /\ UNCHANGED <<messages, proc>>

\* VisitorReturnToBot (widget): the same calls
VisitorReturnToBot(sid) == ReturnToBot(sid)

\* CloseChat (dashboard)
CloseChat(sid) ==
    /\ IF CanCloseSession(sid)
       THEN /\ sessions' = DoCloseSession(sid)
            /\ out' = {ToSession("status-change", sid, "closed"), Http(200, 0)}
       ELSE /\ out' = {Http(500, 0)}
            /\ UNCHANGED sessions
    /\ UNCHANGED <<messages, proc>>

\* VisitorEndSession (widget)
VisitorEndSession(sid) ==
    /\ IF CanCloseSession(sid)
       THEN /\ sessions' = DoCloseSession(sid)
            /\ out' = {ToSession("status-change", sid, "closed"),
                       ToAdmins("session-closed", sid, "visitor"),
                       ToAdmins("queue-update", sid, "removed"),
                       Http(200, 0)}
       ELSE /\ out' = {Http(500, 0)}
            /\ UNCHANGED sessions
    /\ UNCHANGED <<messages, proc>>

\* the cleanup job of Server.Start: CleanupSessions(ctx, 6*time.Minute)
CleanupSessions ==
    /\ \E k \in DOMAIN sessions : Inactive(k)
    /\ sessions' = AfterCleanup
    /\ out' = {}
    /\ UNCHANGED <<messages, proc>>

\* time passes for the sessions
TickIdle ==
    /\ \E k \in DOMAIN sessions :
            sessions[k].status # StatusClosed /\ sessions[k].idle < IdleCap
    /\ sessions' = [k \in DOMAIN sessions |->
                        IF sessions[k].status # StatusClosed /\ sessions[k].idle < IdleCap
                        THEN [sessions[k] EXCEPT !.idle = @ + TickMinutes]
                        ELSE sessions[k]]
    /\ out' = {}
    /\ UNCHANGED <<messages, proc>>

VisitorText == <<"h", "a", "l", "o">>
AdminText == <<"y", "a">>

\* SendMessage: GetSession, 404 when there is no such session
SendMessageRead(p, sid) ==
    /\ proc[p].pc = "idle"
    /\ IF Exists(sid)
       THEN /\ Goto(p, "send_save", sid, "", sessions[sid].status, <<>>)
            /\ out' = {}
       ELSE /\ out' = {Http(404, 0)}
            /\ UNCHANGED proc
    /\ UNCHANGED <<sessions, messages>>

\* what SendMessage sends when the status it read was not bot: the message
\* to the admins if that status was live or queued, the forward to the agent
SendMessageForward(sid, snap, agentReady) ==
    (IF snap \in {StatusLive, StatusQueued}
     THEN {ToAdmins("chat-message", sid, "visitor")} ELSE {})
    \cup (IF agentReady THEN {ToAgent("forward", sid)} ELSE {})
    \cup {Http(200, 0)}

\* what SendMessage sends when the status it read was bot: ProcessMessage is
\* called and its reply broadcast
SendMessageAI(sid, aiOk) ==
    IF aiOk
    THEN {AICall(sid), ToSession("chat-message", sid, "bot"), Http(200, 0)}
    ELSE {AICall(sid), Http(500, 0)}

\* SendMessage: the visitor message is saved, a failure only logged; then
\* the status read at the start decides where the message goes
SendMessageSave(p, saved, agentReady, aiOk) ==
    /\ proc[p].pc = "send_save"
    /\ SaveMessage(ChatMessage(proc[p].sid, "visitor", VisitorText), saved)
    /\ out' = IF proc[p].snap # StatusBot
              THEN SendMessageForward(proc[p].sid, proc[p].snap, agentReady)
              ELSE SendMessageAI(proc[p].sid, aiOk)
    /\ Done(p)

\* AdminSendMessage: the message is saved with no look at the session,
\* 500 when the save fails, else the broadcast to the visitor
AdminSendMessage(sid, saved) ==
    /\ SaveMessage(ChatMessage(sid, "admin", AdminText), saved)
    /\ out' = IF saved /\ CanSaveMessage(sid)
              THEN {ToSession("chat-message", sid, "admin"), Http(200, 0)}
              ELSE {Http(500, 0)}
    /\ UNCHANGED proc

\* HandleAgentReply returns early: own message, no quote, no token in the
\* quote, no such session
BridgeIgnored(evt) ==
    \/ evt.FromMe
    \/ evt.QuotedMsgBody = <<>>
    \/ ~Exists(SessionOfQuote[evt.QuotedMsgBody])

BridgeIgnore(evt) ==
    /\ BridgeIgnored(evt)
    /\ out' = {}
    /\ UNCHANGED <<sessions, messages, proc>>

BridgeBranch_AllSaved(cmd) == "bridge_save"

\* the switch on cmd: where the handler goes ...
BridgeBranch(cmd) ==
    IF cmd \in EndCmds THEN "bridge_close"
    ELSE IF cmd \in BotCmds THEN "bridge_return"
    ELSE "bridge_save"

\* ... and evt.Body as the save will find it (the other branches do not read it)
BridgeBody(evt) ==
    LET cmd == CmdOf[evt.Body]
    IN  IF cmd \in GreetCmds THEN CannedGreeting
        ELSE IF cmd \in ThanksCmds THEN CannedThanks
        ELSE IF cmd \in EndCmds \cup BotCmds THEN <<>>
        ELSE evt.Body

\* HandleAgentReply: GetSession and the command switch
BridgeRead(p, evt) ==
    /\ proc[p].pc = "idle"
    /\ ~BridgeIgnored(evt)
    /\ LET sid == SessionOfQuote[evt.QuotedMsgBody]
           branch == BridgeBranch(CmdOf[evt.Body])
       IN  Goto(p, branch, sid, "",
                IF branch = "bridge_save" THEN sessions[sid].status ELSE "",
                BridgeBody(evt))
    /\ out' = {}
    /\ UNCHANGED <<sessions, messages>>

\* HandleAgentReply, /end /close /selesai
BridgeClose(p) ==
    /\ proc[p].pc = "bridge_close"
    /\ IF CanCloseSession(proc[p].sid)
       THEN /\ sessions' = DoCloseSession(proc[p].sid)
            /\ out' = {ToSession("session-closed", proc[p].sid, ""),
                       ToAdmins("queue-update", proc[p].sid, "closed")}
       ELSE /\ out' = {}
            /\ UNCHANGED sessions
    /\ Done(p)
    /\ UNCHANGED messages

\* HandleAgentReply, /ai /bot /kembali
BridgeReturn(p) ==
    /\ proc[p].pc = "bridge_return"
    /\ IF CanReturnToBot(proc[p].sid)
       THEN /\ sessions' = DoReturnToBot(proc[p].sid)
            /\ out' = {ToSession("status-change", proc[p].sid, "bot"),
                       ToAdmins("queue-update", proc[p].sid, "bot_handoff")}
       ELSE /\ out' = {}
            /\ UNCHANGED sessions
    /\ Done(p)
    /\ UNCHANGED messages

\* HandleAgentReply: the admin message is saved, a failure only logged, and
\* broadcast to the visitor and to the dashboard
BridgeSave(p, saved) ==
    /\ proc[p].pc = "bridge_save"
    /\ SaveMessage(ChatMessage(proc[p].sid, "admin", proc[p].body), saved)
    /\ out' = {ToSession("chat-message", proc[p].sid, "admin"),
               ToAdmins("chat-message", proc[p].sid, "admin")}
    /\ IF proc[p].snap = StatusQueued
       THEN Goto(p, "bridge_claim", proc[p].sid, "", "", <<>>)
       ELSE Done(p)

\* auto-claim, first half of ClaimSession: the session is read
BridgeClaimRead(p) ==
    /\ proc[p].pc = "bridge_claim"
    /\ IF CanClaimSession(proc[p].sid)
       THEN Goto(p, "claim_write", proc[p].sid, "admin_wa", "", <<>>)
       ELSE Done(p)
    /\ out' = {}
    /\ UNCHANGED <<sessions, messages>>

\* auto-claim, second half of ClaimSession: the write, then the broadcasts
BridgeClaimWrite(p) ==
    /\ proc[p].pc = "claim_write"
    /\ sessions' = DoClaimSession(proc[p].sid, proc[p].who)
    /\ out' = {ToSession("admin-joined", proc[p].sid, proc[p].who),
               ToAdmins("queue-update", proc[p].sid, "claimed")}
    /\ Done(p)
    /\ UNCHANGED messages

Next ==
    \/ (\E v \in Visitors : StartChatResume(v)) /\ UNCHANGED nonChatVars
    \/ (\E p \in HttpProcs, v \in Visitors : StartChatLookup(p, v, LifeSessions))
            /\ UNCHANGED nonChatVars
    \/ (\E p \in HttpProcs, ok \in BOOLEAN, saved \in SaveOutcomes :
            StartChatCreate(p, ok, saved)) /\ UNCHANGED nonChatVars
    \/ (\E sid \in SessionIds, agentReady \in BOOLEAN :
            RequestHandover(sid, agentReady)) /\ UNCHANGED nonChatVars
    \/ (\E p \in HttpProcs, sid \in SessionIds, a \in AdminIds :
            ClaimChatRead(p, sid, a)) /\ UNCHANGED nonChatVars
    \/ (\E p \in HttpProcs : ClaimChatWrite(p)) /\ UNCHANGED nonChatVars
    \/ (\E sid \in SessionIds : ReturnToBot(sid)) /\ UNCHANGED nonChatVars
    \/ (\E sid \in SessionIds : VisitorReturnToBot(sid)) /\ UNCHANGED nonChatVars
    \/ (\E sid \in SessionIds : CloseChat(sid)) /\ UNCHANGED nonChatVars
    \/ (\E sid \in SessionIds : VisitorEndSession(sid)) /\ UNCHANGED nonChatVars
    \/ CleanupSessions /\ UNCHANGED nonChatVars
    \/ TickIdle /\ UNCHANGED nonChatVars
    \/ (\E p \in HttpProcs, sid \in SessionIds : SendMessageRead(p, sid))
            /\ UNCHANGED nonChatVars
    \/ (\E p \in HttpProcs, saved \in SaveOutcomes, agentReady, aiOk \in BOOLEAN :
            SendMessageSave(p, saved, agentReady, aiOk)) /\ UNCHANGED nonChatVars
    \/ (\E sid \in SessionIds, saved \in SaveOutcomes : AdminSendMessage(sid, saved))
            /\ UNCHANGED nonChatVars
    \/ (\E evt \in BridgeEvents : BridgeIgnore(evt)) /\ UNCHANGED nonChatVars
    \/ (\E p \in BridgeProcs, evt \in BridgeEvents : BridgeRead(p, evt))
            /\ UNCHANGED nonChatVars
    \/ (\E p \in BridgeProcs : BridgeClose(p)) /\ UNCHANGED nonChatVars
    \/ (\E p \in BridgeProcs : BridgeReturn(p)) /\ UNCHANGED nonChatVars
    \/ (\E p \in BridgeProcs, saved \in SaveOutcomes : BridgeSave(p, saved))
            /\ UNCHANGED nonChatVars
    \/ (\E p \in BridgeProcs : BridgeClaimRead(p)) /\ UNCHANGED nonChatVars
    \/ (\E p \in BridgeProcs : BridgeClaimWrite(p)) /\ UNCHANGED nonChatVars

Spec == InitChat /\ [][Next]_vars

\* Starting and ending sessions, for as many as the store can hold
NextStart ==
    \/ (\E v \in Visitors : StartChatResume(v)) /\ UNCHANGED nonChatVars
    \/ (\E p \in HttpProcs, v \in Visitors : StartChatLookup(p, v, MaxSessions))
            /\ UNCHANGED nonChatVars
    \/ (\E p \in HttpProcs, ok \in BOOLEAN, saved \in SaveOutcomes :
            StartChatCreate(p, ok, saved)) /\ UNCHANGED nonChatVars
    \/ (\E sid \in SessionIds, agentReady \in BOOLEAN :
            RequestHandover(sid, agentReady)) /\ UNCHANGED nonChatVars
    \/ (\E sid \in SessionIds : VisitorReturnToBot(sid)) /\ UNCHANGED nonChatVars
    \/ (\E sid \in SessionIds : VisitorEndSession(sid)) /\ UNCHANGED nonChatVars

SpecStart == InitChat /\ [][NextStart]_vars

-----------------------------------------------------------------------------
(* Properties of the session lifecycle and of the message paths.           *)

OpenSessionsOf(v) ==
    {k \in DOMAIN sessions :
        sessions[k].visitorId = v /\ sessions[k].status # StatusClosed}

AllCmds == GreetCmds \cup ThanksCmds \cup EndCmds \cup BotCmds

\* the step is one of goroutine p
StepOf(p) == proc'[p] # proc[p]

\* chat messages a step delivers: broadcasts and the forward to the agent
Deliveries(o) == {r \in o : r.k \in {"toAdmins", "toSession", "toAgent"}}

C3_CommandsAndSaves ==
    [][\A p \in BridgeProcs :
        /\ \A evt \in BridgeEvents :
              BridgeRead(p, evt) =>
                LET cmd == CmdOf[evt.Body]
                IN  /\ cmd \in EndCmds \cup BotCmds =>
                          proc'[p].pc \in {"bridge_close", "bridge_return"}
                    /\ cmd \in GreetCmds =>
                          proc'[p].pc = "bridge_save" /\ proc'[p].body = CannedGreeting
                    /\ cmd \in ThanksCmds =>
                          proc'[p].pc = "bridge_save" /\ proc'[p].body = CannedThanks
                    /\ cmd \notin AllCmds =>
                          proc'[p].pc = "bridge_save" /\ proc'[p].body = evt.Body
        /\ (StepOf(p) /\ proc[p].pc \in {"bridge_close", "bridge_return"}) =>
              messages' = messages
        /\ (StepOf(p) /\ proc[p].pc = "bridge_save") =>
              \/ messages' = Append(messages,
                                    ChatMessage(proc[p].sid, "admin", proc[p].body))
              \/ messages' = messages
      ]_vars

\* the canned greeting of a /hi reply is in the log
C3_GreetingStored ==
    \E i \in 1..Len(messages) :
        messages[i].Sender = "admin" /\ messages[i].Content = CannedGreeting

\* C3 as stated: a reply that was a recognized command stores nothing, any
\* other reply always stores its message.
C3_CommandsNeverStored ==
    [][\A p \in BridgeProcs :
        (StepOf(p) /\ proc[p].pc = "bridge_save") =>
            IF proc[p].body \in {CannedGreeting, CannedThanks}
            THEN messages' = messages
            ELSE messages' = Append(messages,
                                    ChatMessage(proc[p].sid, "admin", proc[p].body))
      ]_vars

\* C4: closed is terminal: no step changes the status of a closed session.
C4_ClosedIsTerminal ==
    [][\A s \in DOMAIN sessions :
        sessions[s].status = StatusClosed => sessions'[s].status = StatusClosed
      ]_vars

\* C5: a visitor message, an admin message or a non-command bridge reply
\* for a session that is closed when the handler looks at it appends no
\* message and is neither forwarded to the agent nor broadcast.
C5_ClosedSessionGetsNothing ==
    [][/\ \A p \in Procs :
            (StepOf(p) /\ proc[p].pc \in {"send_save", "bridge_save"}
                /\ proc[p].snap = StatusClosed) =>
                (messages' = messages /\ Deliveries(out') = {})
       /\ \A sid \in DOMAIN sessions, saved \in BOOLEAN :
            (sessions[sid].status = StatusClosed /\ AdminSendMessage(sid, saved)) =>
                (messages' = messages /\ Deliveries(out') = {})
      ]_vars

C9_AIOnlyWhileBot ==
    \A r \in out : r.k = "ai" => sessions[r.sid].status = StatusBot

\* C10 (as the code has it): a claim that reads the session as not queued
\* is an error and changes nothing; a claim goes on to its write only after
\* it read the session as queued, and claimedBy is replaced only by such a
\* write, after which the session is live and claimedBy is the last writer.
C10_RefusedOrLastWriteWins ==
    [][/\ \A p \in Procs :
            (proc[p].pc # "claim_write" /\ proc'[p].pc = "claim_write") =>
                /\ proc'[p].sid \in DOMAIN sessions
                /\ sessions[proc'[p].sid].status = StatusQueued
                /\ sessions' = sessions
       /\ \A s \in DOMAIN sessions :
            (sessions[s].claimedBy # ""
                /\ sessions'[s].claimedBy \notin {"", sessions[s].claimedBy}) =>
                \E p \in Procs :
                    /\ proc[p].pc = "claim_write" /\ proc[p].sid = s
                    /\ proc'[p].pc = "idle"
                    /\ sessions'[s].status = StatusLive
                    /\ sessions'[s].claimedBy = proc[p].who
      ]_vars

\* a claim that read the session as queued is about to write over the
\* claim of another admin
C10_SecondClaimPending ==
    \E s \in DOMAIN sessions, p \in Procs :
        /\ sessions[s].status = StatusLive
        /\ proc[p].pc = "claim_write" /\ proc[p].sid = s
        /\ proc[p].who # sessions[s].claimedBy

\* C10 as stated: a claim never replaces the claimedBy of another admin.
C10_ClaimedByNeverReplaced ==
    [][\A s \in DOMAIN sessions :
        sessions[s].claimedBy # "" =>
            sessions'[s].claimedBy \in {"", sessions[s].claimedBy}
      ]_vars

\* The sessions left to themselves: they are started, queued, claimed and
\* written to, time passes, and the cleanup job runs.  The ticker of the
\* cleanup job fires every minute for as long as the server runs, so a
\* cleanup that has something to close is not put off for ever, and neither
\* is the passing of time.
NextIdle ==
    \/ (\E p \in HttpProcs, v \in Visitors : StartChatLookup(p, v, MaxSessions))
            /\ UNCHANGED nonChatVars
    \/ (\E p \in HttpProcs, ok \in BOOLEAN, saved \in SaveOutcomes :
            StartChatCreate(p, ok, saved)) /\ UNCHANGED nonChatVars
    \/ (\E sid \in SessionIds, agentReady \in BOOLEAN :
            RequestHandover(sid, agentReady)) /\ UNCHANGED nonChatVars
    \/ (\E p \in HttpProcs, sid \in SessionIds, a \in AdminIds :
            ClaimChatRead(p, sid, a)) /\ UNCHANGED nonChatVars
    \/ (\E p \in HttpProcs : ClaimChatWrite(p)) /\ UNCHANGED nonChatVars
    \/ (\E p \in HttpProcs, sid \in SessionIds : SendMessageRead(p, sid))
            /\ UNCHANGED nonChatVars
    \/ (\E p \in HttpProcs, saved \in SaveOutcomes, agentReady, aiOk \in BOOLEAN :
            SendMessageSave(p, saved, agentReady, aiOk)) /\ UNCHANGED nonChatVars
    \/ CleanupSessions /\ UNCHANGED nonChatVars
    \/ TickIdle /\ UNCHANGED nonChatVars

SpecIdle ==
    /\ InitChat
    /\ [][NextIdle]_vars
    /\ WF_vars(TickIdle /\ UNCHANGED nonChatVars)
    /\ WF_vars(CleanupSessions /\ UNCHANGED nonChatVars)

Open(s) == s \in DOMAIN sessions /\ sessions[s].status # StatusClosed

NextSide ==
    \/ (\E v \in Visitors : StartChatResume(v)) /\ UNCHANGED nonChatVars
    \/ (\E p \in Procs, v \in Visitors : StartChatLookup(p, v, MaxSessions))
            /\ UNCHANGED nonChatVars
    \/ (\E p \in Procs, ok \in BOOLEAN, saved \in SaveOutcomes :
            StartChatCreate(p, ok, saved)) /\ UNCHANGED nonChatVars
    \/ (\E sid \in SessionIds : VisitorEndSession(sid)) /\ UNCHANGED nonChatVars

SpecSide == InitChat /\ [][NextSide]_vars

\* C27: whatever the interleaving of the StartChat requests of a visitor,
\* the visitor has at most one session that is not closed.
C27_OneOpenSessionPerVisitor ==
    \A v \in Visitors : Cardinality(OpenSessionsOf(v)) <= 1

\* C23: when SaveMessage fails, the handler that accepted the chat message
\* still broadcasts it to its subscribers and does not fail the request:
\* SendMessage sends the visitor message to the admins of a live or queued
\* session and answers 200, AdminSendMessage sends the text to the visitor
\* and answers 200, the bridge sends the reply to the visitor and the admins.
C23_SaveFailureNeverBlocks ==
    [][/\ \A p \in HttpProcs : \A agentReady, aiOk \in BOOLEAN :
            SendMessageSave(p, FALSE, agentReady, aiOk) =>
                /\ proc[p].snap \in {StatusLive, StatusQueued} =>
                        ToAdmins("chat-message", proc[p].sid, "visitor") \in out'
                /\ proc[p].snap # StatusBot => Http(200, 0) \in out'
       /\ \A sid \in SessionIds :
            AdminSendMessage(sid, FALSE) =>
                /\ ToSession("chat-message", sid, "admin") \in out'
                /\ Http(200, 0) \in out'
       /\ \A p \in BridgeProcs :
            BridgeSave(p, FALSE) =>
                /\ ToSession("chat-message", proc[p].sid, "admin") \in out'
                /\ ToAdmins("chat-message", proc[p].sid, "admin") \in out'
      ]_vars

\* C24: when the auto-claim of a bridge reply is applied, a queued session
\* becomes live with claimedBy = admin_wa, and a session that is bot, live
\* or closed at that moment keeps its status and its claimedBy.
C24_AutoClaimOnlyWhenQueued ==
    [][\A p \in BridgeProcs :
        BridgeClaimWrite(p) =>
            LET s == proc[p].sid
            IN  IF sessions[s].status = StatusQueued
                THEN /\ sessions'[s].status = StatusLive
                     /\ sessions'[s].claimedBy = "admin_wa"
                ELSE /\ sessions'[s].status = sessions[s].status
                     /\ sessions'[s].claimedBy = sessions[s].claimedBy
      ]_vars

\* the edges of the session state machine
StatusEdges ==
    {<<StatusBot, StatusQueued>>, <<StatusQueued, StatusLive>>,
     <<StatusQueued, StatusBot>>, <<StatusLive, StatusBot>>}
    \cup {<<a, StatusClosed>> : a \in {StatusBot, StatusQueued, StatusLive}}

\* C11: the status of a session changes only along bot -> queued,
\* queued -> live, queued/live -> bot and any -> closed; in particular no
\* step makes a session live that is not queued, or queued that is not bot.
C11_StatusEdges ==
    [][\A s \in DOMAIN sessions :
        sessions'[s].status # sessions[s].status =>
            <<sessions[s].status, sessions'[s].status>> \in StatusEdges
      ]_vars

-----------------------------------------------------------------------------
(* Message timestamps.  SendMessage stamps a visitor message with          *)
(* time.Now(); HandleAgentReply stamps a bridge reply with                 *)
(* time.Unix(evt.Timestamp, 0), and onMessage filled evt.Timestamp with     *)
(* v.Info.Timestamp.Unix(), the time the agent's message carries.          *)

TicksPerSecond == 2    \* resolution of the clock: ticks in a second
MaxClock == 4          \* the clock stops here
MaxWire == 2           \* messages of the agent under way
MaxStored == 3         \* messages the log can hold

\* Time.Unix(): whole seconds
UnixSeconds(t) == t \div TicksPerSecond

\* time.Unix(sec, 0)
TimeUnix(sec) == sec * TicksPerSecond

InitStamp ==
    /\ IdleStamp
    /\ IdleExtract
    /\ IdleAuto
    /\ IdleChat
    /\ IdleHub
    /\ IdleOrder
    /\ IdleFwd
    /\ IdleLid
    /\ IdleMore

ClockTick ==
    /\ clock < MaxClock
    /\ clock' = clock + 1
    /\ UNCHANGED <<wire, stored>>

\* the agent replies on WhatsApp; the message carries the time it was sent
AgentReplies ==
    /\ Cardinality(wire) < MaxWire
    /\ wire' = wire \cup {[Timestamp |-> UnixSeconds(clock)]}
    /\ UNCHANGED <<clock, stored>>

\* SendMessage: Timestamp: time.Now(), SaveMessage, the answer to the visitor
SendMessageStamped(saved) ==
    /\ Len(stored) < MaxStored
    /\ stored' = IF saved
                 THEN Append(stored, [Sender |-> "visitor", Timestamp |-> clock])
                 ELSE stored
    /\ UNCHANGED <<clock, wire>>

\* HandleAgentReply: the event arrives, Timestamp: time.Unix(evt.Timestamp, 0),
\* SaveMessage
HandleAgentReplyStamped(evt, saved) ==
    /\ evt \in wire
    /\ Len(stored) < MaxStored
    /\ wire' = wire \ {evt}
    /\ stored' = IF saved
                 THEN Append(stored, [Sender |-> "admin",
                                      Timestamp |-> TimeUnix(evt.Timestamp)])
                 ELSE stored
    /\ UNCHANGED clock

NextStamp ==
    \/ ClockTick /\ UNCHANGED nonStampVars
    \/ AgentReplies /\ UNCHANGED nonStampVars
    \/ (\E saved \in BOOLEAN : SendMessageStamped(saved)) /\ UNCHANGED nonStampVars
    \/ (\E evt \in wire, saved \in BOOLEAN : HandleAgentReplyStamped(evt, saved))
            /\ UNCHANGED nonStampVars

SpecStamp == InitStamp /\ [][NextStamp]_vars

\* C12: a bridge reply that arrives after a visitor message was answered
\* (and so is persisted after it) is never stored with a timestamp earlier
\* than that visitor message's.
C12_BridgeStampNotEarlier ==
    \A i, j \in 1..Len(stored) :
        (i < j /\ stored[i].Sender = "visitor" /\ stored[j].Sender = "admin") =>
            stored[j].Timestamp >= stored[i].Timestamp

-----------------------------------------------------------------------------
(* ChatHub: the registry of the WebSocket connections, the send channel of *)
(* every connection, the two broadcasts and the pumps.  Run handles one    *)
(* register or unregister at a time under h.mu; a broadcast holds the read *)
(* lock; each is one step.                                                 *)

SendCap == 2           \* capacity of ChatClient.send (256 in the source)

AdminConns == {"a1", "a2"}
VisitorConns == {"v1", "v2"}
Conns == AdminConns \cup VisitorConns

\* ChatClient.sessionID: the sessionId of the route for a visitor, empty (0)
\* for an admin
ConnSession == [c \in Conns |-> IF c = "v1" THEN 1 ELSE IF c = "v2" THEN 2 ELSE 0]

NoConn == "none"

\* the envelope a broadcast marshals: event and data
HubMsg(event, sid, sender, content) ==
    [event |-> event, sessionId |-> sid, sender |-> sender, content |-> content]

\* what a connection's readPump reads: {"type": ..., "sessionId": ...}, the
\* sessionId 0 when the field is missing
WsEvents == [type : {"typing", "page-change", "ping"}, sessionId : SessionIds \cup {0}]

InitHub ==
    /\ hubVisitors = [k \in SessionIds |-> NoConn]
    /\ hubAdmins = {}
    /\ send = [c \in Conns |-> <<>>]
    /\ connState = [c \in Conns |-> "new"]
    /\ IdleExtract
    /\ IdleAuto
    /\ IdleChat
    /\ IdleStamp
    /\ IdleOrder
    /\ IdleFwd
    /\ IdleLid
    /\ IdleMore

Enqueue_Unbounded(buf, msg) == Append(buf, msg)

\* select { case client.send <- jsonData: default: }
Enqueue(buf, msg) == IF Len(buf) < SendCap THEN Append(buf, msg) ELSE buf

\* ChatHub.BroadcastToSession: the send channels after the call
BroadcastToSession(sid, msg) ==
    IF sid \in DOMAIN hubVisitors /\ hubVisitors[sid] # NoConn
    THEN [send EXCEPT ![hubVisitors[sid]] = Enqueue(@, msg)]
    ELSE send

\* ChatHub.BroadcastToAdmins: the send channels after the call
BroadcastToAdmins(msg) ==
    [c \in Conns |-> IF c \in hubAdmins THEN Enqueue(send[c], msg) ELSE send[c]]

\* HandleVisitorWS and the register case of Run
HandleVisitorWS(c) ==
    /\ c \in VisitorConns
    /\ connState[c] = "new"
    /\ connState' = [connState EXCEPT ![c] = "open"]
    /\ hubVisitors' = [hubVisitors EXCEPT ![ConnSession[c]] = c]
    /\ UNCHANGED <<hubAdmins, send>>

\* HandleAdminWS and the register case of Run
HandleAdminWS(c) ==
    /\ c \in AdminConns
    /\ connState[c] = "new"
    /\ connState' = [connState EXCEPT ![c] = "open"]
    /\ hubAdmins' = hubAdmins \cup {c}
    /\ UNCHANGED <<hubVisitors, send>>

\* readPump ends (read error) and the unregister case of Run: the
\* connection leaves the registry and its send channel is closed
Unregister(c) ==
    /\ connState[c] = "open"
    /\ connState' = [connState EXCEPT ![c] = "gone"]
    /\ IF c \in AdminConns
       THEN /\ hubAdmins' = hubAdmins \ {c}
            /\ UNCHANGED hubVisitors
       ELSE /\ hubVisitors' = IF hubVisitors[ConnSession[c]] = c
                              THEN [hubVisitors EXCEPT ![ConnSession[c]] = NoConn]
                              ELSE hubVisitors
            /\ UNCHANGED hubAdmins
    /\ UNCHANGED send

\* writePump: the next event of the send channel is written to the socket
WritePump(c) ==
    /\ connState[c] # "new"
    /\ send[c] # <<>>
    /\ send' = [send EXCEPT ![c] = Tail(@)]
    /\ UNCHANGED <<hubVisitors, hubAdmins, connState>>

TypingTag_FromEvent(c, evt) == evt.sessionId

\* readPump, visitor typing: "sessionId": c.sessionID
TypingTag(c, evt) == ConnSession[c]

\* readPump: one message read from the socket
ReadPump(c, evt) ==
    /\ connState[c] = "open"
    /\ send' =
        IF evt.type = "typing"
        THEN IF c \in AdminConns
             THEN BroadcastToSession(evt.sessionId,
                                     HubMsg("typing", evt.sessionId, "admin", ""))
             ELSE BroadcastToAdmins(HubMsg("typing", TypingTag(c, evt), "visitor", ""))
        ELSE IF evt.type = "page-change" /\ c \notin AdminConns
             THEN BroadcastToAdmins(HubMsg("page-change", ConnSession[c], "", ""))
             ELSE send
    /\ UNCHANGED <<hubVisitors, hubAdmins, connState>>

NextHub ==
    \/ (\E c \in VisitorConns : HandleVisitorWS(c)) /\ UNCHANGED nonHubVars
    \/ (\E c \in AdminConns : HandleAdminWS(c)) /\ UNCHANGED nonHubVars
    \/ (\E c \in Conns : Unregister(c)) /\ UNCHANGED nonHubVars
    \/ (\E c \in Conns : WritePump(c)) /\ UNCHANGED nonHubVars
    \/ (\E c \in Conns, evt \in WsEvents : ReadPump(c, evt)) /\ UNCHANGED nonHubVars

SpecHub == InitHub /\ [][NextHub]_vars

-----------------------------------------------------------------------------
(* Chat messages of one session on their way through the store and the     *)
(* hub: SendMessage, AdminSendMessage and HandleAgentReply each persist    *)
(* their message with SaveMessage and broadcast it afterwards, each in its *)
(* own goroutine.  The session is live; one admin and the visitor of the   *)
(* session connect.                                                        *)

OrderSession == 1
OrderConns == {"a1", "v1"}
Publishers == {"SendMessage", "AdminSendMessage", "HandleAgentReply"}

\* req.Content / evt.Body of the three messages
ContentOf == [h \in Publishers |->
                IF h = "SendMessage" THEN "v"
                ELSE IF h = "AdminSendMessage" THEN "a" ELSE "w"]

InitOrder ==
    /\ hubVisitors = [k \in SessionIds |-> NoConn]
    /\ hubAdmins = {}
    /\ send = [c \in Conns |-> <<>>]
    /\ connState = [c \in Conns |-> "new"]
    /\ plog = <<>>
    /\ pub = [h \in Publishers |-> "start"]
    /\ IdleExtract
    /\ IdleAuto
    /\ IdleChat
    /\ IdleStamp
    /\ IdleFwd
    /\ IdleLid
    /\ IdleMore

\* SaveMessage of handler h: the message is appended to the log, or the
\* write fails
Persist(h, saved) ==
    plog' = IF saved THEN Append(plog, ContentOf[h]) ELSE plog

\* SendMessage: SaveMessage, a failure only logged
SendMessagePersist(saved) ==
    /\ pub["SendMessage"] = "start"
    /\ Persist("SendMessage", saved)
    /\ pub' = [pub EXCEPT !["SendMessage"] = "saved"]
    /\ UNCHANGED hubVars

\* SendMessage: BroadcastToAdmins("chat-message") for a live session
SendMessageBroadcast ==
    /\ pub["SendMessage"] = "saved"
    /\ send' = BroadcastToAdmins(HubMsg("chat-message", OrderSession, "visitor",
                                        ContentOf["SendMessage"]))
    /\ pub' = [pub EXCEPT !["SendMessage"] = "done"]
    /\ UNCHANGED <<hubVisitors, hubAdmins, connState, plog>>

\* AdminSendMessage: SaveMessage, 500 and no broadcast when it fails
AdminSendMessagePersist(saved) ==
    /\ pub["AdminSendMessage"] = "start"
    /\ Persist("AdminSendMessage", saved)
    /\ pub' = [pub EXCEPT !["AdminSendMessage"] = IF saved THEN "saved" ELSE "done"]
    /\ UNCHANGED hubVars

\* AdminSendMessage: BroadcastToSession("chat-message")
AdminSendMessageBroadcast ==
    /\ pub["AdminSendMessage"] = "saved"
    /\ send' = BroadcastToSession(OrderSession,
                                  HubMsg("chat-message", OrderSession, "admin",
                                         ContentOf["AdminSendMessage"]))
    /\ pub' = [pub EXCEPT !["AdminSendMessage"] = "done"]
    /\ UNCHANGED <<hubVisitors, hubAdmins, connState, plog>>

\* HandleAgentReply: SaveMessage, a failure only logged
BridgePersist(saved) ==
    /\ pub["HandleAgentReply"] = "start"
    /\ Persist("HandleAgentReply", saved)
    /\ pub' = [pub EXCEPT !["HandleAgentReply"] = "saved"]
    /\ UNCHANGED hubVars

\* HandleAgentReply: 5. Broadcast to Visitor
BridgeBroadcastVisitor ==
    /\ pub["HandleAgentReply"] = "saved"
    /\ send' = BroadcastToSession(OrderSession,
                                  HubMsg("chat-message", OrderSession, "admin",
                                         ContentOf["HandleAgentReply"]))
    /\ pub' = [pub EXCEPT !["HandleAgentReply"] = "told"]
    /\ UNCHANGED <<hubVisitors, hubAdmins, connState, plog>>

\* HandleAgentReply: 6. Broadcast to Dashboard
BridgeBroadcastAdmins ==
    /\ pub["HandleAgentReply"] = "told"
    /\ send' = BroadcastToAdmins(HubMsg("chat-message", OrderSession, "admin",
                                        ContentOf["HandleAgentReply"]))
    /\ pub' = [pub EXCEPT !["HandleAgentReply"] = "done"]
    /\ UNCHANGED <<hubVisitors, hubAdmins, connState, plog>>

NextOrder ==
    \/ (\E c \in OrderConns : HandleVisitorWS(c)) /\ UNCHANGED <<orderVars, nonOrderVars>>
    \/ (\E c \in OrderConns : HandleAdminWS(c)) /\ UNCHANGED <<orderVars, nonOrderVars>>
    \/ (\E saved \in BOOLEAN : SendMessagePersist(saved)) /\ UNCHANGED nonOrderVars
    \/ SendMessageBroadcast /\ UNCHANGED nonOrderVars
    \/ (\E saved \in BOOLEAN : AdminSendMessagePersist(saved)) /\ UNCHANGED nonOrderVars
    \/ AdminSendMessageBroadcast /\ UNCHANGED nonOrderVars
    \/ (\E saved \in BOOLEAN : BridgePersist(saved)) /\ UNCHANGED nonOrderVars
    \/ BridgeBroadcastVisitor /\ UNCHANGED nonOrderVars
    \/ BridgeBroadcastAdmins /\ UNCHANGED nonOrderVars

SpecOrder == InitOrder /\ [][NextOrder]_vars

\* position of a content in the log, 0 when it was not persisted
PersistedAt(x) ==
    IF \E i \in 1..Len(plog) : plog[i] = x
    THEN CHOOSE i \in 1..Len(plog) : plog[i] = x
    ELSE 0

\* C13: the chat messages waiting in a subscriber's send channel, which its
\* writePump delivers first in first out, stand in the order in which they
\* were persisted.
C13_DeliveredInPersistedOrder ==
    \A c \in Conns : \A i, j \in 1..Len(send[c]) :
        (/\ i < j
         /\ PersistedAt(send[c][i].content) > 0
         /\ PersistedAt(send[c][j].content) > 0) =>
            PersistedAt(send[c][i].content) < PersistedAt(send[c][j].content)

-----------------------------------------------------------------------------
(* Properties of the hub.                                                  *)

\* the connections a message read from connection c is broadcast to
Audience(c, evt) ==
    IF evt.type = "typing" /\ c \in AdminConns
    THEN {k \in Conns : evt.sessionId \in DOMAIN hubVisitors
                            /\ hubVisitors[evt.sessionId] = k}
    ELSE IF evt.type \in {"typing", "page-change"} /\ c \notin AdminConns
    THEN hubAdmins
    ELSE {}

\* buffer b with one event of the given name more
OneMore(b, after, event) ==
    /\ Len(after) = Len(b) + 1
    /\ SubSeq(after, 1, Len(b)) = b
    /\ after[Len(after)].event = event

\* C14: a broadcast never waits for a subscriber: a connection that is open
\* can always go through with the broadcast of what it read, whatever the
\* state of the send channels; the event is appended to the channel of every
\* subscriber of the audience that has room, and the channel of a subscriber
\* that is full is left as it is.
C14_BroadcastNeverBlocks ==
    /\ [](\A c \in Conns, evt \in WsEvents :
            connState[c] = "open" => ENABLED ReadPump(c, evt))
    /\ [][\A c \in Conns, evt \in WsEvents :
            ReadPump(c, evt) =>
                \A k \in Conns :
                    IF k \in Audience(c, evt) /\ Len(send[k]) < SendCap
                    THEN OneMore(send[k], send'[k], evt.type)
                    ELSE send'[k] = send[k]
         ]_vars

\* the send channel of admin a1 is full, and admin a2 has just been handed
\* an event that a1 does not hold
C14_DroppedForOneOnly ==
    /\ hubAdmins = {"a1", "a2"}
    /\ Len(send["a1"]) = SendCap
    /\ send["a2"] # <<>>
    /\ \A i \in 1..Len(send["a1"]) : send["a1"][i] # send["a2"][Len(send["a2"])]

\* C15: what readPump forwards goes to the other side only: an event read
\* from a visitor connection is enqueued for registered admin connections
\* only and carries the session id of that connection; a typing event read
\* from an admin connection is enqueued only for the visitor connection
\* registered for the session the event names; nothing else is forwarded.
C15_ComplementaryAudience ==
    [][\A c \in Conns, evt \in WsEvents :
        ReadPump(c, evt) =>
            \A k \in Conns :
                send'[k] # send[k] =>
                    LET m == send'[k][Len(send'[k])]
                    IN  /\ send'[k] = Append(send[k], m)
                        /\ m.event = evt.type
                        /\ IF c \in VisitorConns
                           THEN /\ k \in AdminConns \cap hubAdmins
                                /\ m.sessionId = ConnSession[c]
                                /\ m.sender # "admin"
                           ELSE /\ evt.type = "typing"
                                /\ k \in VisitorConns
                                /\ ConnSession[k] = evt.sessionId
                                /\ hubVisitors[evt.sessionId] = k
                                /\ m.sessionId = evt.sessionId
                                /\ m.sender = "admin"
      ]_vars

\* an admin holds the typing event of a visitor and a visitor that of an admin
C15_BothDirections ==
    /\ \E k \in hubAdmins, i \in 1..SendCap :
            /\ i <= Len(send[k])
            /\ send[k][i].event = "typing" /\ send[k][i].sender = "visitor"
    /\ \E k \in VisitorConns, i \in 1..SendCap :
            /\ i <= Len(send[k])
            /\ send[k][i].event = "typing" /\ send[k][i].sender = "admin"

-----------------------------------------------------------------------------
(* forwardEvents: every inbound message is handed, by value, to            *)
(* HandleAgentReply and to HandleBotAutoResponder, each in a goroutine of  *)
(* its own.                                                                *)

\* quoted texts: none, one without token, a bridge quote, a quote whose
\* candidate after '#' is no clean token
FwdQuotes == AutoQuotes \cup {<<"#">> \o Rep("c", 14) \o <<",", " ", "o", "k">>}

FwdEvents ==
    [From : Senders, FromMe : BOOLEAN, authorized : BOOLEAN, QuotedMsgBody : FwdQuotes]

InitFwd ==
    /\ fwdEvt \in FwdEvents
    /\ fwdPc = [h \in {"HandleAgentReply", "HandleBotAutoResponder"} |-> "start"]
    /\ reactions = {}
    /\ IdleExtract
    /\ IdleAuto
    /\ IdleChat
    /\ IdleStamp
    /\ IdleHub
    /\ IdleOrder
    /\ IdleLid
    /\ IdleMore

BridgeActs_AnyQuote(evt, found) ==
    /\ ~evt.FromMe
    /\ evt.QuotedMsgBody # <<>>
    /\ found

\* HandleAgentReply gets past its early returns: not self-sent, a quote, a
\* session id in the quote, GetSession finds the session
BridgeActs(evt, found) ==
    /\ ~evt.FromMe
    /\ evt.QuotedMsgBody # <<>>
    /\ extractSessionID(evt.QuotedMsgBody) # <<>>
    /\ found

\* go s.ChatHandler.HandleAgentReply(msg)
FwdBridge(found) ==
    /\ fwdPc["HandleAgentReply"] = "start"
    /\ fwdPc' = [fwdPc EXCEPT !["HandleAgentReply"] = "done"]
    /\ reactions' = reactions \cup
                        (IF BridgeActs(fwdEvt, found) THEN {"bridge"} ELSE {})
    /\ UNCHANGED fwdEvt

\* go s.ChatHandler.HandleBotAutoResponder(msg): the early returns, the
\* cooldown test, the send when the client is ready
FwdAuto(cooldown, clientReady) ==
    /\ fwdPc["HandleBotAutoResponder"] = "start"
    /\ fwdPc' = [fwdPc EXCEPT !["HandleBotAutoResponder"] = "done"]
    /\ reactions' = reactions \cup
                        (IF ~AutoFiltered(fwdEvt) /\ ~cooldown /\ clientReady
                         THEN {"ack"} ELSE {})
    /\ UNCHANGED fwdEvt

NextFwd ==
    \/ (\E found \in BOOLEAN : FwdBridge(found)) /\ UNCHANGED nonFwdVars
    \/ (\E cooldown, clientReady \in BOOLEAN : FwdAuto(cooldown, clientReady))
            /\ UNCHANGED nonFwdVars

SpecFwd == InitFwd /\ [][NextFwd]_vars

\* C17: no inbound event is both acted on by the reply bridge and answered
\* with an acknowledgment of the auto-responder, in whatever order the two
\* goroutines run.
C17_AtMostOneReaction ==
    ~({"bridge", "ack"} \subseteq reactions)

\* both handlers are through with an event of a sender who is no admin; the
\* bridge acted on it
C17_BridgeOnly ==
    /\ \A h \in DOMAIN fwdPc : fwdPc[h] = "done"
    /\ fwdPc # <<>>
    /\ ~fwdEvt.authorized
    /\ reactions = {"bridge"}

-----------------------------------------------------------------------------
(* Identity resolution: the LID part of SyncContactsStream and the         *)
(* LIDCache.  A pass looks every LID of the label up in the cache, asks    *)
(* the network for the others one at a time (batchSize 1), stops asking    *)
(* once the network answers with a rate limit, and reports a resolved id   *)
(* for every LID.  Passes follow one another.                              *)

MaxPasses == 2         \* passes of SyncContactsStream

Lids == {"L1", "L2"}

\* device.User of the phone device the network knows for a LID
PhoneOf == [l \in Lids |-> IF l = "L1" THEN "P1" ELSE "P2"]

\* lidJIDs: the LIDs of the label, the keys of a map in any order
LidLists == {<<"L1">>, <<"L2">>, <<"L1", "L2">>, <<"L2", "L1">>}

\* GetUserInfo: a phone device, no phone device, 429 / rate-overlimit,
\* another error
LookupOutcomes == {"phone", "nophone", "limited", "error"}

PassIdle == [n |-> 0, pc |-> "idle", list |-> <<>>, uncached |-> <<>>, i |-> 1,
             networkDisabled |-> FALSE, resolved |-> <<>>]

InitLid ==
    /\ lidMapping = <<>>
    /\ lidFile = <<>>
    /\ savers = <<>>
    /\ pass = PassIdle
    /\ lookups = [l \in Lids |-> 0]
    /\ report = <<>>
    /\ IdleExtract
    /\ IdleAuto
    /\ IdleChat
    /\ IdleStamp
    /\ IdleHub
    /\ IdleOrder
    /\ IdleFwd
    /\ IdleMore

CacheHit_Never(lid) == FALSE

\* LIDCache.Get: found
CacheHit(lid) == lid \in DOMAIN lidMapping

Uncached(list) == SelectSeq(list, LAMBDA l : ~CacheHit(l))

\* the cache pass of SyncContactsStream: lidToResolvedID defaults to the
\* LID itself, a cached phone replaces it, the others are to be looked up
PassStart(list) ==
    /\ pass.pc = "idle"
    /\ pass.n < MaxPasses
    /\ pass' = [n |-> pass.n + 1, pc |-> "lookup", list |-> list,
                uncached |-> Uncached(list), i |-> 1, networkDisabled |-> FALSE,
                resolved |-> [l \in {list[k] : k \in 1..Len(list)} |->
                                IF CacheHit(l) THEN lidMapping[l] ELSE l]]
    /\ UNCHANGED <<lidMapping, lidFile, savers, lookups, report>>

CanLookup_NoBreaker(p) == p.i <= Len(p.uncached)

\* "for i := 0; i < len(uncachedLIDs); i += batchSize { if networkDisabled { break }"
CanLookup(p) == p.i <= Len(p.uncached) /\ ~p.networkDisabled

\* the goroutine that Set starts: it has not run yet
SaverNew == [pc |-> "start", seen |-> <<>>, raced |-> FALSE, data |-> <<>>]

\* LIDCache.Set: nothing when the entry is there already; else the entry is
\* put into Mapping under the lock and a goroutine is started that will
\* write the file.  The goroutines of earlier calls take no lock: one that
\* is reading Mapping at this moment reads it while it is written.
LidSet(lid, phone) ==
    IF lid \in DOMAIN lidMapping /\ lidMapping[lid] = phone
    THEN UNCHANGED <<lidMapping, savers>>
    ELSE /\ lidMapping' = [l \in DOMAIN lidMapping \cup {lid} |->
                                IF l = lid THEN phone ELSE lidMapping[l]]
         /\ savers' = Append([k \in DOMAIN savers |->
                                IF savers[k].pc = "read"
                                THEN [savers[k] EXCEPT !.raced = TRUE]
                                ELSE savers[k]],
                             SaverNew)

\* one turn of the loop: GetUserInfo for the next uncached LID
Lookup(outcome) ==
    /\ pass.pc = "lookup"
    /\ CanLookup(pass)
    /\ LET lid == pass.uncached[pass.i]
       IN  /\ lookups' = [lookups EXCEPT ![lid] = @ + 1]
           /\ IF outcome = "phone"
              THEN /\ pass' = [pass EXCEPT !.i = @ + 1,
                                           !.resolved[lid] = PhoneOf[lid]]
                   /\ LidSet(lid, PhoneOf[lid])
              ELSE /\ pass' = [pass EXCEPT !.i = @ + 1,
                                           !.networkDisabled = (outcome = "limited")]
                   /\ UNCHANGED <<lidMapping, savers>>
    /\ UNCHANGED <<lidFile, report>>

\* the loop is left: the contact events are sent with lidToResolvedID
PassSendEvents ==
    /\ pass.pc = "lookup"
    /\ ~CanLookup(pass)
    /\ report' = pass.resolved
    /\ pass' = [PassIdle EXCEPT !.n = pass.n]
    /\ UNCHANGED <<lidMapping, lidFile, savers, lookups>>

\* the goroutine of Set begins json.MarshalIndent(c.Mapping): it holds no
\* lock
SaverMarshalBegin(k) ==
    /\ savers[k].pc = "start"
    /\ savers' = [savers EXCEPT ![k].pc = "read", ![k].seen = lidMapping]
    /\ UNCHANGED <<lidMapping, lidFile, pass, lookups, report>>

Restrict(m, D) == [l \in D |-> m[l]]

\* what an iteration over Mapping can yield that began at the mapping
\* "seen" and ended at the mapping m: the entries added meanwhile may or
\* may not be among them
Marshalled(seen, m) ==
    {Restrict(m, D) : D \in {E \in SUBSET DOMAIN m : DOMAIN seen \subseteq E}}

\* json.MarshalIndent returns: with no write of Mapping during the read the
\* data are the mapping, else any of the outcomes of the unsynchronised read
SaverMarshalEnd(k, data) ==
    /\ savers[k].pc = "read"
    /\ IF savers[k].raced
       THEN data \in Marshalled(savers[k].seen, lidMapping)
       ELSE data = lidMapping
    /\ savers' = [savers EXCEPT ![k].pc = "write", ![k].data = data]
    /\ UNCHANGED <<lidMapping, lidFile, pass, lookups, report>>

\* os.WriteFile(c.FilePath, data): the file is replaced by the data
SaverWrite(k) ==
    /\ savers[k].pc = "write"
    /\ lidFile' = savers[k].data
    /\ savers' = [savers EXCEPT ![k].pc = "done"]
    /\ UNCHANGED <<lidMapping, pass, lookups, report>>

LidMaps == UNION {[D -> {PhoneOf[l] : l \in Lids}] : D \in SUBSET Lids}

NextLid ==
    \/ (\E list \in LidLists : PassStart(list)) /\ UNCHANGED nonLidVars
    \/ (\E outcome \in LookupOutcomes : Lookup(outcome)) /\ UNCHANGED nonLidVars
    \/ PassSendEvents /\ UNCHANGED nonLidVars
    \/ (\E k \in DOMAIN savers : SaverMarshalBegin(k)) /\ UNCHANGED nonLidVars
    \/ (\E k \in DOMAIN savers : \E data \in LidMaps : SaverMarshalEnd(k, data))
            /\ UNCHANGED nonLidVars
    \/ (\E k \in DOMAIN savers : SaverWrite(k)) /\ UNCHANGED nonLidVars

SpecLid == InitLid /\ [][NextLid]_vars

\* C18 (as the code has it): once a lookup has resolved a LID, no later
\* lookup is issued for it: a pass that finds the LID in the cache reports
\* the cached phone without asking the network.  A lookup that fails or
\* names no phone device leaves no cache entry, and the next pass asks again.
C18_ResolvedIsNeverLookedUpAgain ==
    [][\A l \in Lids :
        /\ l \in DOMAIN lidMapping => lookups'[l] = lookups[l]
        /\ (pass.pc = "idle" /\ pass'.pc = "lookup" /\ l \in DOMAIN pass'.resolved
                /\ l \in DOMAIN lidMapping) =>
                /\ pass'.resolved[l] = lidMapping[l]
                /\ \A k \in 1..Len(pass'.uncached) : pass'.uncached[k] # l
        /\ lookups'[l] > lookups[l] =>
                /\ pass.pc = "lookup"
                /\ pass.uncached[pass.i] = l
      ]_vars

\* the second pass reports L1 from the cache: one lookup was made for it
C18_SecondPassFromCache ==
    /\ pass.n = MaxPasses
    /\ pass.pc = "idle"
    /\ "L1" \in DOMAIN report
    /\ report["L1"] = PhoneOf["L1"]
    /\ lookups["L1"] = 1
    /\ "L2" \in DOMAIN report
    /\ lookups["L2"] = 2

\* C18 as stated: two consecutive passes over the same LID make at most one
\* network lookup for it.
C18_AtMostOneLookup ==
    \A l \in Lids : lookups[l] <= 1

\* C19: once a lookup of a pass was answered with a rate limit, the pass
\* issues no further lookup, and every LID that is unresolved at that point
\* (its resolved id is the LID itself) stays so and is reported with the
\* LID itself as its resolved id.
C19_BreakerStopsLookups ==
    [][pass.networkDisabled =>
        /\ lookups' = lookups
        /\ pass' # pass =>
              /\ pass'.pc = "idle"
              /\ DOMAIN report' = DOMAIN pass.resolved
              /\ \A l \in DOMAIN pass.resolved :
                    pass.resolved[l] = l => report'[l] = l
      ]_vars

\* a pass over both LIDs was rate limited at its first lookup: both are
\* reported unresolved, after one lookup
C19_ReportedUnresolved ==
    /\ pass.pc = "idle"
    /\ pass.n = 1
    /\ DOMAIN report = Lids
    /\ \A l \in Lids : report[l] = l
    /\ lookups["L1"] + lookups["L2"] = 1

\* C20: when LIDCache.Set has returned, the cache file holds the new
\* mapping: every entry of the cache in memory is in the file.
C20_FileHasMapping ==
    \A l \in DOMAIN lidMapping :
        l \in DOMAIN lidFile /\ lidFile[l] = lidMapping[l]

\* every goroutine that Set started has written the file
SaversDone == \A k \in DOMAIN savers : savers[k].pc = "done"

\* C21: Mapping is never read by a save while Set writes it, and when all
\* saves have finished the cache file equals the mapping in memory.
C21_SavesLoseNothing ==
    /\ \A k \in DOMAIN savers : ~savers[k].raced
    /\ SaversDone => lidFile = lidMapping

-----------------------------------------------------------------------------
(* isAuthorizedAdmin: who may control the bot from WhatsApp.               *)

\* strings.ReplaceAll(s, c, "") for a one-character c
RemoveChar(s, c) == SelectSeq(s, LAMBDA x : x # c)

HasPrefix(s, pre) == Len(s) >= Len(pre) /\ Take(s, Len(pre)) = pre

sanitizePhone(phone) ==
    LET p == RemoveChar(RemoveChar(RemoveChar(phone, " "), "-"), "+")
    IN  IF HasPrefix(p, <<"0">>) THEN <<"6", "2">> \o Drop(p, 1) ELSE p

DigitChars == {"0", "1", "2", "3", "4", "5", "6", "7", "8", "9"}

looksLikePhone(s) ==
    /\ Len(s) >= 10
    /\ Len(s) <= 15
    /\ \A k \in 1..Len(s) : s[k] \in DigitChars

KnownAdmins == {
    <<"6", "2", "8", "1", "3", "9", "9", "7", "1", "0", "0", "8", "5">>,
    <<"6", "2", "8", "9", "5", "1", "8", "5", "3", "0", "3", "0", "6">>,
    <<"6", "2", "8", "2", "2", "5", "8", "1", "1", "5", "4", "7", "4">>,
    <<"6", "2", "8", "2", "1", "1", "0", "1", "0", "0", "0", "8", "5">> }

\* h.config.AgentPhone, as the environment gives it
ConfigAgentPhone == <<"0", "8", "1", "1", "-", "1", "1", "1", "1", "-", "1", "1", "1">>

\* the document of the settings store: AgentPhone, MainNumber, SecondaryNumber
DynamicSettings == [
    AgentPhone      |-> <<"+", "6", "2", " ", "8", "2", "2", " ", "2", "2", "2", "2", " ", "2", "2", "2">>,
    MainNumber      |-> <<"6", "2", "8", "3", "3", "3", "3", "3", "3", "3", "3", "3", "3">>,
    SecondaryNumber |-> <<>> ]

StrangerPhone == <<"6", "2", "8", "4", "4", "4", "4", "4", "4", "4", "4", "4", "4">>

LidUser == <<"1", "2", "3", "4", "5", "6", "7", "8", "9", "0", "1", "2", "3", "4", "5", "6", "7", "8">>

ServerUser == <<"s", ".", "w", "h", "a", "t", "s", "a", "p", "p", ".", "n", "e", "t">>
ServerLid == <<"l", "i", "d">>

\* the senders asked about: the user part of the JID
AdminUsers == {
    <<"6", "2", "8", "1", "3", "9", "9", "7", "1", "0", "0", "8", "5">>,
    sanitizePhone(ConfigAgentPhone),
    sanitizePhone(DynamicSettings.AgentPhone),
    sanitizePhone(DynamicSettings.MainNumber),
    StrangerPhone,
    LidUser }

AdminJids == {u \o <<"@">> \o srv : u \in AdminUsers, srv \in {ServerUser, ServerLid}}
                \cup AdminUsers

\* utils.ResolveLIDToPhoneNumber: an error, or the phone of the LID
ResolveOutcomes == {<<>>, sanitizePhone(ConfigAgentPhone), StrangerPhone}

\* GetWhatsAppSettings within the 2 s of the context: the settings, an
\* error of the store, the deadline exceeded, or no document
FetchOutcomes == {"ok", "error", "timeout", "nil"}

InitAdmin ==
    /\ adminIn \in [jid            : AdminJids,
                    botClient      : BOOLEAN,
                    resolved       : ResolveOutcomes,
                    hasSettingsRepo : BOOLEAN,
                    fetch          : FetchOutcomes]
    /\ adminOut = "none"
    /\ IdleExtract
    /\ IdleAuto
    /\ IdleChat
    /\ IdleStamp
    /\ IdleHub
    /\ IdleOrder
    /\ IdleFwd
    /\ IdleLid
    /\ IdleTpl
    /\ IdleReg
    /\ IdleMon

\* the phone the checks are made with: the sanitized user part, replaced by
\* the resolved phone when the JID is a LID and the resolution succeeds
AdminPhone(in) ==
    LET parts  == SplitChar(in.jid, "@")
        user   == parts[1]
        server == IF ContainsChar(in.jid, "@") THEN parts[2] ELSE <<>>
    IN  IF (server = ServerLid \/ ~looksLikePhone(user))
            /\ in.botClient /\ in.resolved # <<>>
        THEN sanitizePhone(in.resolved)
        ELSE sanitizePhone(user)

\* "2. Check Dynamic Settings": with a settings repository the settings are
\* compared when the fetch gave them; the configured agent phone is compared
\* only when there is no settings repository
DynamicOrStatic(in, phone) ==
    IF in.hasSettingsRepo
    THEN /\ in.fetch = "ok"
         /\ \/ sanitizePhone(DynamicSettings.AgentPhone) = phone
            \/ sanitizePhone(DynamicSettings.MainNumber) = phone
            \/ sanitizePhone(DynamicSettings.SecondaryNumber) = phone
    ELSE sanitizePhone(ConfigAgentPhone) = phone

isAuthorizedAdmin(in) ==
    LET phone == AdminPhone(in)
    IN  /\ phone # <<>>
        /\ \/ phone \in KnownAdmins
           \/ DynamicOrStatic(in, phone)

IsAuthorizedAdminCall ==
    /\ adminOut = "none"
    /\ adminOut' = IF isAuthorizedAdmin(adminIn) THEN "true" ELSE "false"
    /\ UNCHANGED adminIn

NextAdmin ==
    \/ IsAuthorizedAdminCall /\ UNCHANGED <<baseVars, tplVars, regVars, monVars>>

SpecAdmin == InitAdmin /\ [][NextAdmin]_vars

\* C22: when the fetch of the dynamic settings fails or times out, a sender
\* whose phone is the statically configured agent phone is authorized.
C22_StaticFallbackOnFetchFailure ==
    (/\ adminOut # "none"
     /\ adminIn.hasSettingsRepo
     /\ adminIn.fetch \in {"error", "timeout"}
     /\ AdminPhone(adminIn) = sanitizePhone(ConfigAgentPhone))
        => adminOut = "true"

-----------------------------------------------------------------------------
(* The texts sent to the agent, and the way back through extractSessionID. *)

\* session ids of 15, 20 and 30 letters and digits
RoundIds == { Rep("k", MinIDLen), TokenA, Rep("z", 10) \o Rep("9", MaxIDLen - 10) }

TplNames == { <<"B", "u", "d", "i">>, <<"S", "a", "r", "i", " ", "#", "1">> }
TplPhones == { <<>>, <<"0", "8", "1", "2", "3", "4", "5">> }
TplLocations == { <<>>, <<"J", "a", "k", "a", "r", "t", "a">> }
TplPages == { <<>>, <<"/", "h", "a", "r", "g", "a">>,
    <<"/", "l", "a", "y", "a", "n", "a", "n", "#", "p", "e", "n", "d", "i",
      "r", "i", "a", "n", "-", "p", "t", "-", "p", "e", "r", "o", "r", "a",
      "n", "g", "a", "n">> }
TplContents == { <<"h", "a", "l", "o">>,
    <<"p", "r", "o", "m", "o", " ", "#", "a", "k", "h", "i", "r", "-", "t",
      "a", "h", "u", "n", "-", "2", "0", "2", "4", "-", "b", "a", "n", "d",
      "u", "n", "g", " ", "a", "d", "a", "?">> }
TplSummaries == { <<>>, <<"T", "a", "n", "y", "a", " ", "h", "a", "r", "g", "a">>,
    <<"M", "i", "n", "a", "t", " ", "p", "a", "k", "e", "t", " ", "#", "L",
      "a", "y", "a", "n", "a", "n", "P", "e", "n", "d", "i", "r", "i", "a",
      "n", "P", "T">> }

\* visitorInfo: "Nama: %s", then "\nWA: %s", "\nLokasi: %s", "\nHalaman: %s"
\* for the fields that are not empty
VisitorInfo(t) ==
    <<"N", "a", "m", "a", ":", " ">> \o t.name
    \o (IF t.phone # <<>> THEN <<LF, "W", "A", ":", " ">> \o t.phone ELSE <<>>)
    \o (IF t.location # <<>> THEN <<LF, "L", "o", "k", "a", "s", "i", ":", " ">> \o t.location
        ELSE <<>>)
    \o (IF t.page # <<>> THEN <<LF, "H", "a", "l", "a", "m", "a", "n", ":", " ">> \o t.page
        ELSE <<>>)

\* SendMessage: "%s\n\n%s\n\nID: #%s" of visitorInfo, content, session id
ForwardText(t) ==
    VisitorInfo(t) \o <<LF, LF>> \o t.content \o <<LF, LF, "I", "D", ":", " ", "#">> \o t.id

\* RequestHandover: "*Permintaan Chat Baru (#%s)*\n\n%s\n\n*Ringkasan AI:*\n%s
\* \n\nBalas pesan ini untuk terhubung." of session id, visitorInfo, summary
HandoverText(t) ==
    <<"*", "P", "e", "r", "m", "i", "n", "t", "a", "a", "n", " ", "C", "h",
      "a", "t", " ", "B", "a", "r", "u", " ", "(", "#">> \o t.id \o <<")", "*", LF, LF>>
    \o VisitorInfo(t)
    \o <<LF, LF, "*", "R", "i", "n", "g", "k", "a", "s", "a", "n", " ", "A", "I",
      ":", "*", LF>> \o t.summary
    \o <<LF, LF, "B", "a", "l", "a", "s", " ", "p", "e", "s", "a", "n", " ", "i",
      "n", "i", " ", "u", "n", "t", "u", "k", " ", "t", "e", "r", "h", "u",
      "b", "u", "n", "g", ".">>

RenderText(t) == IF t.kind = "forward" THEN ForwardText(t) ELSE HandoverText(t)

InitRound ==
    /\ tmpl \in [kind : {"forward", "handover"}, id : RoundIds, name : TplNames,
                  phone : TplPhones, location : TplLocations, page : TplPages,
                  content : TplContents, summary : TplSummaries]
    /\ quotedBody = RenderText(tmpl)
    /\ extracted = <<>>
    /\ exPc = "start"
    /\ IdleAuto
    /\ IdleChat
    /\ IdleStamp
    /\ IdleHub
    /\ IdleOrder
    /\ IdleFwd
    /\ IdleLid
    /\ IdleAdm
    /\ IdleReg
    /\ IdleMon

\* the agent quotes the text, the bridge extracts the session id from it
SpecRound == InitRound /\ [][NextExtract]_vars

\* C26: extractSessionID applied to the forwarded visitor message or to the
\* handover notification of a session returns the id of that session.
C26_TokenRoundTrip ==
    exPc = "done" => extracted = tmpl.id

-----------------------------------------------------------------------------
(* ChatHub.Run: registering and unregistering connections, and closing    *)
(* their send channels, beside the broadcasts.  Two visitor connections    *)
(* are opened for the same session, so that the second replaces the first. *)

RegAdmins == {"a1"}
RegVisitors == {"v1", "w1"}
RegConns == RegAdmins \cup RegVisitors

\* c.Param("sessionId") of both visitor connections
RegSession == 1

RunIdle == [case |-> "none", client |-> NoConn]

InitReg ==
    /\ hubVisitors = [k \in {RegSession} |-> NoConn]
    /\ hubAdmins = {}
    /\ send = [c \in RegConns |-> <<>>]
    /\ connState = [c \in RegConns |-> "new"]
    /\ run = RunIdle
    /\ closed = [c \in RegConns |-> 0]
    /\ panics = {}
    /\ IdleExtract
    /\ IdleAuto
    /\ IdleChat
    /\ IdleStamp
    /\ IdleOrder
    /\ IdleFwd
    /\ IdleLid
    /\ IdleAdm
    /\ IdleTpl
    /\ IdleMon

\* HandleVisitorWS / HandleAdminWS: "h.register <- client" is taken by Run,
\* which is between two cases; the handler then starts the pumps
RunReceiveRegister(c) ==
    /\ connState[c] = "new"
    /\ run = RunIdle
    /\ run' = [case |-> "register", client |-> c]
    /\ connState' = [connState EXCEPT ![c] = "open"]
    /\ UNCHANGED <<hubVisitors, hubAdmins, send, closed, panics>>

\* Run, case client := <-h.register, under the lock
RunRegister ==
    /\ run.case = "register"
    /\ IF run.client \in RegAdmins
       THEN /\ hubAdmins' = hubAdmins \cup {run.client}
            /\ UNCHANGED hubVisitors
       ELSE /\ hubVisitors' = [hubVisitors EXCEPT ![RegSession] = run.client]
            /\ UNCHANGED hubAdmins
    /\ run' = RunIdle
    /\ UNCHANGED <<send, connState, closed, panics>>

\* readPump ends: its deferred "c.hub.unregister <- c" waits for Run
ReadPumpExit(c) ==
    /\ connState[c] = "open"
    /\ connState' = [connState EXCEPT ![c] = "leaving"]
    /\ UNCHANGED <<hubVisitors, hubAdmins, send, run, closed, panics>>

\* "c.hub.unregister <- c" is taken by Run
RunReceiveUnregister(c) ==
    /\ connState[c] = "leaving"
    /\ run = RunIdle
    /\ run' = [case |-> "unregister", client |-> c]
    /\ connState' = [connState EXCEPT ![c] = "gone"]
    /\ UNCHANGED <<hubVisitors, hubAdmins, send, closed, panics>>

\* close(client.send): closing a closed channel panics
CloseSend(c) ==
    /\ closed' = [closed EXCEPT ![c] = @ + 1]
    /\ panics' = IF closed[c] > 0 THEN panics \cup {"close of closed channel"} ELSE panics

StillRegistered_AnyClient(c) ==
    IF c \in RegAdmins THEN c \in hubAdmins ELSE hubVisitors[RegSession] # NoConn

\* "if _, ok := h.admins[client]; ok" and
\* "if existing, ok := h.visitors[client.sessionID]; ok && existing == client"
StillRegistered(c) ==
    IF c \in RegAdmins THEN c \in hubAdmins ELSE hubVisitors[RegSession] = c

\* Run, case client := <-h.unregister, under the lock
RunUnregister ==
    /\ run.case = "unregister"
    /\ IF StillRegistered(run.client)
       THEN /\ IF run.client \in RegAdmins
               THEN /\ hubAdmins' = hubAdmins \ {run.client}
                    /\ UNCHANGED hubVisitors
               ELSE /\ hubVisitors' = [hubVisitors EXCEPT ![RegSession] = NoConn]
                    /\ UNCHANGED hubAdmins
            /\ CloseSend(run.client)
       ELSE UNCHANGED <<hubVisitors, hubAdmins, closed, panics>>
    /\ run' = RunIdle
    /\ UNCHANGED <<send, connState>>

\* the connections a broadcast finds in the tables
Receivers(toAdmins) ==
    IF toAdmins THEN hubAdmins
    ELSE IF hubVisitors[RegSession] # NoConn THEN {hubVisitors[RegSession]} ELSE {}

\* BroadcastToSession / BroadcastToAdmins, under the read lock: a send on a
\* closed channel panics, a full channel is skipped
Broadcast(toAdmins) ==
    /\ send' = [c \in RegConns |->
                    IF c \in Receivers(toAdmins) /\ closed[c] = 0
                    THEN Enqueue(send[c], "m") ELSE send[c]]
    /\ panics' = IF \E c \in Receivers(toAdmins) : closed[c] > 0
                 THEN panics \cup {"send on closed channel"} ELSE panics
    /\ UNCHANGED <<hubVisitors, hubAdmins, connState, run, closed>>

\* writePump: "case message, ok := <-c.send" with a message
RegWritePump(c) ==
    /\ connState[c] # "new"
    /\ send[c] # <<>>
    /\ send' = [send EXCEPT ![c] = Tail(@)]
    /\ UNCHANGED <<hubVisitors, hubAdmins, connState, run, closed, panics>>

nonRegVars == <<exVars, autoVars, chatVars, stampVars, orderVars, fwdVars, lidVars,
                admVars, tplVars, monVars>>

NextReg ==
    \/ (\E c \in RegConns : RunReceiveRegister(c)) /\ UNCHANGED nonRegVars
    \/ RunRegister /\ UNCHANGED nonRegVars
    \/ (\E c \in RegConns : ReadPumpExit(c)) /\ UNCHANGED nonRegVars
    \/ (\E c \in RegConns : RunReceiveUnregister(c)) /\ UNCHANGED nonRegVars
    \/ RunUnregister /\ UNCHANGED nonRegVars
    \/ (\E toAdmins \in BOOLEAN : Broadcast(toAdmins)) /\ UNCHANGED nonRegVars
    \/ (\E c \in RegConns : RegWritePump(c)) /\ UNCHANGED nonRegVars

SpecReg == InitReg /\ [][NextReg]_vars

\* C28: no send channel is closed twice and no broadcast sends on a closed
\* channel (there is no panic), and when Run carries out the unregister of
\* a visitor connection that a newer connection of the session has
\* replaced, the newer one stays in the table and its channel stays open.
C28_HubNeverPanics ==
    /\ [](/\ \A c \in RegConns : closed[c] <= 1
          /\ panics = {})
    /\ [][\A c \in RegVisitors :
            (/\ run = [case |-> "unregister", client |-> c]
             /\ run' = RunIdle
             /\ hubVisitors[RegSession] \notin {c, NoConn}) =>
                /\ hubVisitors'[RegSession] = hubVisitors[RegSession]
                /\ closed'[hubVisitors[RegSession]] = 0
         ]_vars

\* v1 was replaced by w1 and has been unregistered since: w1 is still in
\* the table, its channel is open and a broadcast has reached it
C28_NewerSurvives ==
    /\ connState["v1"] = "gone"
    /\ run = RunIdle
    /\ hubVisitors[RegSession] = "w1"
    /\ closed["w1"] = 0
    /\ closed["v1"] = 0
    /\ send["w1"] # <<>>

-----------------------------------------------------------------------------
(* MonitorService: the health check of the cron job and its alerts.        *)

MaxChecks == 6         \* health checks followed
MonPeriod == 10        \* "*/5 * * * *": five minutes, in half minutes
DownAlertAfter == 10   \* 5*time.Minute, in half minutes

StatusUp == "up"
StatusDown == "down"
StatusSlow == "slow"
StatusRecovery == "recovery"

\* pingHealth: down on an error or a 5xx, slow above 5000 ms, else up
PingOutcomes == {StatusUp, StatusDown, StatusSlow}

\* time.Now() of a run against that of the run before: the cron period,
\* give or take the time the scheduler and the ping take
Elapsed == {MonPeriod - 1, MonPeriod, MonPeriod + 1}

\* NewMonitorService
InitMon ==
    /\ mon = [lastStatus |-> StatusUp, downSince |-> 0, alertSent |-> FALSE,
              slowCount |-> 0]
    /\ monNow = 0
    /\ checks = <<>>
    /\ alerts = <<>>
    /\ IdleExtract
    /\ IdleAuto
    /\ IdleChat
    /\ IdleStamp
    /\ IdleHub
    /\ IdleOrder
    /\ IdleFwd
    /\ IdleLid
    /\ IdleAdm
    /\ IdleTpl
    /\ IdleReg

\* case StatusDown
AfterDown(m, t) ==
    LET m1 == IF m.lastStatus # StatusDown
              THEN [m EXCEPT !.downSince = t, !.alertSent = FALSE] ELSE m
        alert == ~m1.alertSent /\ t - m1.downSince > DownAlertAfter
    IN  [m |-> IF alert THEN [m1 EXCEPT !.alertSent = TRUE] ELSE m1,
         sent |-> IF alert THEN <<StatusDown>> ELSE <<>>]

\* "if s.slowCount >= 3 && s.lastStatus != StatusSlow"
SlowAlertDue(m, count) == count >= 3 /\ m.lastStatus # StatusSlow

\* case StatusSlow
AfterSlow(m, t) ==
    LET count == m.slowCount + 1
    IN  [m |-> [m EXCEPT !.slowCount = count],
         sent |-> IF SlowAlertDue(m, count) THEN <<StatusSlow>> ELSE <<>>]

\* case StatusUp
AfterUp(m, t) ==
    [m |-> [m EXCEPT !.slowCount = 0, !.alertSent = FALSE],
     sent |-> IF m.lastStatus = StatusDown /\ m.alertSent
              THEN <<StatusRecovery>> ELSE <<>>]

\* checkHealth: one run of the cron job
checkHealth(status, elapsed) ==
    /\ Len(checks) < MaxChecks
    /\ LET t == monNow + elapsed
           r == IF status = StatusDown THEN AfterDown(mon, t)
                ELSE IF status = StatusSlow THEN AfterSlow(mon, t)
                ELSE AfterUp(mon, t)
       IN  /\ monNow' = t
           /\ mon' = [r.m EXCEPT !.lastStatus = status]
           /\ alerts' = alerts \o r.sent
    /\ checks' = Append(checks, status)

NextMon ==
    \/ (\E status \in PingOutcomes, elapsed \in Elapsed : checkHealth(status, elapsed))
            /\ UNCHANGED <<baseVars, admVars, tplVars, regVars>>

SpecMon == InitMon /\ [][NextMon]_vars

\* the last n checks all observed the status
LastChecksAre(n, status) ==
    /\ Len(checks) >= n
    /\ \A k \in (Len(checks) - n + 1)..Len(checks) : checks[k] = status

\* C30: when three health checks in a row have observed slow, a slow alert
\* has been sent by the end of the third.
C30_SlowAlertAfterThree ==
    LastChecksAre(3, StatusSlow) => \E k \in 1..Len(alerts) : alerts[k] = StatusSlow

=============================================================================
